---- MODULE Spec2Model ----
(***************************************************************************)
(* Security-Camera-Agent: the staging pipeline of the edge agent.          *)
(*                                                                         *)
(*   motion detector --create_event--> server                              *)
(*   motion detector --motion_event.set--> event processor                 *)
(*   event processor --artifact + .READY sentinel--> pending directory     *)
(*   transfer manager --copy .tmp, rename, update_file--> network storage  *)
(*                                                                         *)
(* Spec      : the untimed pipeline (detector, handoff, processor,         *)
(*             transfer manager, storage faults, process restart).         *)
(* LiveSpec  : Spec plus the fairness of the transfer thread.              *)
(* TimedSpec : detector cooldown against processor duration, in seconds.   *)
(* CooldownSpec : the detection loop against the wall clock.               *)
(* ApiSpec   : the retry loops of the API client and what their callers    *)
(*             do with the result.                                         *)
(***************************************************************************)
EXTENDS Integers, Sequences, FiniteSets, TLC

(***************************************************************************)
(* Bounds of the model.                                                    *)
(***************************************************************************)
MaxEvents == 1        \* event ids the server hands out in one behaviour
MaxFaults == 1        \* injected failures (storage, copy, unlink, capture, process death)
TimedMaxEvents == 3   \* event ids the server hands out in a timed behaviour
MaxClock == 40        \* seconds of wall clock a CooldownSpec behaviour covers
\* log entries made in a run of LoggerSpec
MaxLogs == 3

\* the buffer's limits, scaled down from config (1000 chunks, 50 MB), the
\* largest chunk the encoder hands over, and the pushes of a run
CIRCULAR_BUFFER_MAX_CHUNKS == 3
CIRCULAR_BUFFER_MAX_BYTES == 6
MaxChunkBytes == 7
MaxPushes == 6

\* the largest of the consecutive event ids formatted in ParseSpec
MaxEventId == 11

MaxAttempts == 6      \* attempts of one call of a retry-forever operation
\* handles the detector sets while the watchdog pauses and resumes the processor
MaxHandles == 2
\* SIGINT/SIGTERM deliveries in one run of the process
MaxSignals == 2
\* calls that raise in one run of TickSpec (unlink, copy2, rename)
MaxRaises == 2

(***************************************************************************)
(* File names.  A name is its '_'-separated stem and its extension, all    *)
(* fields strings, as on disk.                                             *)
(***************************************************************************)
Digits == <<"1", "2", "3", "4">>

\* config.MOTION_COOLDOWN_SECONDS as shipped
MOTION_COOLDOWN_SECONDS == 65

\* validate_config: the smallest cooldown it accepts
MinCooldown == 17

\* time.sleep(4.0) between picture A and picture B
PictureBDelay == 4

\* "T+35s: Video H.264": the latest end of the timed sequence
VideoDoneAt == 35

Tags == <<"a", "thumb", "b", "video">>

\* config.TRANSFER_TIMEOUT, seconds
TRANSFER_TIMEOUT == 30

\* str(event_id) of the f-strings in _process_event
StrOfInt(i) == Digits[i]

\* int(parts[0]); 0 stands for the ValueError of a non-integer field
IntOfStr(s) ==
    IF \E i \in 1..Len(Digits) : Digits[i] = s
    THEN CHOOSE i \in 1..Len(Digits) : Digits[i] = s
    ELSE 0

ExtOfTag(tag) == IF tag = "video" THEN "h264" ELSE "jpg"

\* f"{event_id}_{timestamp_str}_{tag}.{ext}" with timestamp_str = "%Y%m%d_%H%M%S"
FormatName(event_id, tag) ==
    [stem |-> <<StrOfInt(event_id), "20251030", "143022", tag>>, ext |-> ExtOfTag(tag)]

\* "invalid_filename.jpg": a malformed name dropped into pending with a sentinel
InvalidFilename == [stem |-> <<"invalid", "filename">>, ext |-> "jpg"]

ArtifactNames == {FormatName(e, Tags[k]) : e \in 1..MaxEvents, k \in 1..4}

\* a name of four fields whose first field is not an integer
NonIntegerId == [stem |-> <<"x", "20251030", "143022", "a">>, ext |-> "jpg"]

\* a name of four fields whose type indicator is not in type_map
UnknownTag == [stem |-> <<"1", "20251030", "143022", "c">>, ext |-> "jpg"]

MalformedNames == {InvalidFilename, NonIntegerId, UnknownTag}

\* the files of pending in a behaviour of the whole pipeline
Names == ArtifactNames \cup {InvalidFilename}

\* the files of pending when an operator has dropped malformed pairs there
DrainNames == ArtifactNames \cup MalformedNames

NoFile == [stem |-> <<>>, ext |-> ""]

type_map ==
    [a |-> <<"image_a", "pictures">>, b |-> <<"image_b", "pictures">>,
     thumb |-> <<"thumbnail", "thumbs">>, video |-> <<"video", "videos">>]

ParseFail == [ok |-> FALSE, event_id |-> 0, file_type |-> "", dest_subdir |-> ""]

\* mutant: only the number of fields is checked
ParseFilename_Lenient(n) ==
    IF Len(n.stem) < 4 THEN ParseFail
    ELSE [ok |-> TRUE, event_id |-> IntOfStr(n.stem[1]),
          file_type |-> "image_a", dest_subdir |-> "pictures"]

\* TransferManager._parse_filename: None (ParseFail) or the metadata
ParseFilename(n) ==
    IF Len(n.stem) < 4 THEN ParseFail
    ELSE IF IntOfStr(n.stem[1]) = 0 THEN ParseFail
    ELSE IF n.stem[4] \notin DOMAIN type_map THEN ParseFail
    ELSE [ok |-> TRUE, event_id |-> IntOfStr(n.stem[1]),
          file_type |-> type_map[n.stem[4]][1], dest_subdir |-> type_map[n.stem[4]][2]]

Range(s) == {s[i] : i \in 1..Len(s)}

Remove(s, x) == SelectSeq(s, LAMBDA y : y # x)

VARIABLES
    \* ---- motion detector / server ----
    dpc,            \* "idle" | "creating" | "created"
    devent,         \* id create_event returned to the current _handle_motion_event
    nextId,         \* next id the server assigns
    created,        \* ids create_event has returned
    published,      \* ids passed to motion_event.set, in order
    \* ---- motion_event handoff ----
    slot,           \* 0 = empty, else the unconsumed event id
    consumed,       \* ids wait_and_get has returned, in order
    \* ---- event processor ----
    ppc,            \* "wait" | "start" | "writing" | "written"
    pk,             \* index into Tags of the artifact in hand
    pevent,         \* event id in hand
    \* ---- pending directory ----
    pending,        \* name -> "absent" | "partial" | "complete"
    sentinels,      \* names having a .READY, oldest mtime first
    \* ---- network storage ----
    nfsUp,          \* _check_nfs_mounted would succeed
    nfs,            \* .tmp[F]   = {dest}/{F}.tmp, "absent" | "partial" | "complete"
                    \* .final[F] = {dest}/{F},     likewise
    \* ---- transfer manager ----
    tpc,            \* position of the transfer thread
    tqueue,         \* sentinels of this tick not yet handled
    tfile,          \* file of the sentinel in hand
    attempt,        \* steps the current _transfer_file call has completed
    updates,        \* update_file calls of this agent run: <<event_id, file_type>>
    \* ---- environment ----
    faults,         \* failures injected so far
    crashes,        \* restarts so far
    \* ---- detector against processor, in seconds (TimedSpec) ----
    cooldown_seconds,   \* config.MOTION_COOLDOWN_SECONDS of this run
    sinceDetection,     \* time.time() - last_detection_time, capped at cooldown_seconds
    busyFor,            \* seconds until _process_event returns (0: in wait_and_get)
    hslot,              \* the handoff slot: 0 or the unconsumed event id
    hnext,              \* next id the server assigns
    hpublished,         \* ids passed to motion_event.set, in order
    hconsumed,          \* ids wait_and_get has returned, in order
    hlost,              \* ids overwritten in the slot before they were consumed
    \* ---- detection loop against the clock (CooldownSpec) ----
    detection,          \* .now                 : time.time(), whole seconds
                        \* .last_detection_time : MotionDetector.last_detection_time (0: never)
                        \* .pc          : "loop" | "detected" | "creating" | "published" | "failed"
                        \* .windowStart : when the first create_event call started (0: not yet)
                        \* .windowCalls : create_event calls started in
                        \*                [windowStart, windowStart + cooldown)
    \* ---- API client (ApiSpec) ----
    api,                \* .op      : operation in progress, or "none"
                        \* .batch   : len(log_entries) of the send_logs call
                        \* .attempt : the operation's attempt counter
                        \* .delays  : delay computed after each failed attempt of this call
                        \* .resp    : what the last attempt received
                        \* .result  : "pending" or the value the operation returned
                        \* .caller  : what the caller did with the last result
    \* ---- _transfer_file against the network mount (MountSpec) ----
    nfsMount,           \* .base     : nfs_base exists
                        \* .subdirs  : directories under camera_nfs_dir
                        \* .writable : the health-check file can be touched and unlinked
                        \* .staged   : files in pending with their sentinel
                        \* .tmp      : files having a {dest}/{F}.tmp
                        \* .final    : files having a {dest}/{F}
                        \* .notified : files update_file was called for
                        \* .file     : file of the _transfer_file call in progress
                        \* .last     : what the last _transfer_file call did
    \* ---- orchestrator and the threads it starts (LifecycleSpec) ----
    system,             \* .pc      : position of the main thread in run()
                        \* .done    : steps the main thread has completed, in order
                        \* .running : SecurityCameraSystem.running
                        \* .flag    : running attribute of each activity
                        \* .thread  : position of each activity thread ("none": not started)
                        \* .handle  : a handle is in the motion_event slot
                        \* .exit    : exit code of run() (-1: still running)
                        \* .frames  : the stop() calls in progress in the main thread, the
                        \*            innermost last; .pc "guard" | "flag" | "sequence",
                        \*            .k the statements of StopOrder the call has completed
                        \* .signals : signals delivered so far
                        \* .sleeping: register_camera is in time.sleep(delay)
    apiLogger,      \* LoggerSpec: the APILogger (queue, flushes in flight, send_logs calls)
    circular,       \* BufferSpec: the circular buffer (chunks held, bytes_held, last operation)
    parser,         \* ParseSpec: one file name, as formatted or dropped, and what _parse_filename makes of it
    unnotified,     \* ResumeSpec: the files whose update_file call returned failure or raised
    procPause,      \* PauseSpec: the event processor under pause()/resume() and the handoff slot it reads
    tick            \* TickSpec: _transfer_loop with its counters, one sentinel after another

pipelineVars ==
    <<dpc, devent, nextId, created, published, slot, consumed, ppc, pk, pevent,
      pending, sentinels, nfsUp, nfs, tpc, tqueue, tfile,
      attempt, updates, faults, crashes>>

timedVars ==
    <<cooldown_seconds, sinceDetection, busyFor, hslot, hnext, hpublished, hconsumed, hlost>>

vars == <<pipelineVars, timedVars, detection, api, nfsMount, system, apiLogger, circular, parser, unnotified, procPause, tick>>

\* what the actions of one specification leave alone
notPipeline == <<timedVars, detection, api, nfsMount, system, apiLogger, circular, parser, unnotified, procPause, tick>>
notTimed == <<pipelineVars, detection, api, nfsMount, system, apiLogger, circular, parser, unnotified, procPause, tick>>
notCooldown == <<pipelineVars, timedVars, api, nfsMount, system, apiLogger, circular, parser, unnotified, procPause, tick>>
notApi == <<pipelineVars, timedVars, detection, nfsMount, system, apiLogger, circular, parser, unnotified, procPause, tick>>
notMount == <<pipelineVars, timedVars, detection, api, system, apiLogger, circular, parser, unnotified, procPause, tick>>
notSystem == <<pipelineVars, timedVars, detection, api, nfsMount, apiLogger, circular, parser, unnotified, procPause, tick>>
notLogger == <<pipelineVars, timedVars, detection, api, nfsMount, system, circular, parser, unnotified, procPause, tick>>
notBuffer == <<pipelineVars, timedVars, detection, api, nfsMount, system, apiLogger, parser, unnotified, procPause, tick>>
notParser == <<pipelineVars, timedVars, detection, api, nfsMount, system, apiLogger, circular, unnotified, procPause, tick>>
notNotify == <<pipelineVars, timedVars, detection, api, nfsMount, system, apiLogger, circular, parser, procPause, tick>>
notPause == <<pipelineVars, timedVars, detection, api, nfsMount, system, apiLogger, circular, parser, unnotified, tick>>
notTick == <<pipelineVars, timedVars, detection, api, nfsMount, system, apiLogger, circular, parser, unnotified, procPause>>

detectorVars == <<dpc, devent, nextId, created, published>>
processorVars == <<ppc, pk, pevent>>
transferVars == <<tpc, tqueue, tfile, attempt>>
storageVars == <<nfsUp, nfs>>
envVars == <<faults, crashes>>

CanFault == faults < MaxFaults

(***************************************************************************)
(* Initial state: all threads started, nothing staged except, possibly,    *)
(* the operator's malformed pair.                                          *)
(***************************************************************************)
InitPipeline ==
    /\ dpc = "idle" /\ devent = 0 /\ nextId = 1
    /\ created = {} /\ published = <<>>
    /\ slot = 0 /\ consumed = <<>>
    /\ ppc = "wait" /\ pk = 0 /\ pevent = 0
    /\ \E g \in BOOLEAN :
        /\ pending = [n \in Names |-> IF g /\ n = InvalidFilename THEN "complete" ELSE "absent"]
        /\ sentinels = IF g THEN <<InvalidFilename>> ELSE <<>>
    /\ nfsUp = TRUE
    /\ nfs = [tmp |-> [n \in Names |-> "absent"], final |-> [n \in Names |-> "absent"]]
    /\ tpc = "sleep" /\ tqueue = <<>> /\ tfile = NoFile
    /\ attempt = <<>> /\ updates = <<>>
    /\ faults = 0 /\ crashes = 0

\* the timed variables at rest (not in cooldown, processor waiting)
TimedIdle(c) ==
    /\ cooldown_seconds = c /\ sinceDetection = c /\ busyFor = 0
    /\ hslot = 0 /\ hnext = 1
    /\ hpublished = <<>> /\ hconsumed = <<>> /\ hlost = {}

\* the first second of the wall clock a behaviour covers (time.time() > 0)
ClockStart == 1

\* MotionDetector.__init__: last_detection_time = 0; the loop not yet entered
CooldownIdle ==
    detection = [now |-> ClockStart, last_detection_time |-> 0, pc |-> "loop",
                 windowStart |-> 0, windowCalls |-> 0]

NoResponse == [kind |-> "none", status |-> 0, id |-> "None"]

\* APIClient.__init__: no call in progress
ApiIdle ==
    api = [op |-> "none", batch |-> 0, attempt |-> 0, delays |-> <<>>,
           resp |-> NoResponse, result |-> "pending", caller |-> "idle"]

\* required_subdirs of _check_nfs_mounted
Subdirs == {"pictures", "thumbs", "videos"}

\* the transfer attempts against the mount are not part of the behaviour
MountIdle == nfsMount = <<>>

\* the long-running activities that carry a running attribute
Activities == {"detector", "processor", "transfer", "logger"}

\* the orchestrator is not part of the behaviour
SystemIdle == system = <<>>

\* the threads that run _flush_logs: the LogWriter thread and the caller of stop()
Flushers == {"writer", "stop"}

\* the logger is not part of the behaviour
LoggerIdle == apiLogger = <<>>

\* the circular buffer is not part of the behaviour
BufferIdle == circular = <<>>

\* no name is taken apart as text in the behaviour
ParserIdle == parser = <<>>

\* no update_file call has failed
NotifyIdle == unnotified = {}

\* pause() and resume() are not part of the behaviour
PauseIdle == procPause = <<>>

\* the transfer loop's counters are not part of the behaviour
TickIdle == tick = <<>>

Init == InitPipeline /\ TimedIdle(MOTION_COOLDOWN_SECONDS) /\ CooldownIdle /\ ApiIdle /\ MountIdle /\ SystemIdle /\ LoggerIdle /\ BufferIdle /\ ParserIdle /\ NotifyIdle /\ PauseIdle /\ TickIdle

(***************************************************************************)
(* motion_event: the single-slot handoff (motion_event.py).                *)
(***************************************************************************)
\* MotionEvent.set: non-blocking, overwrites any unconsumed value
MotionEvent_set(s, event_id) == event_id

\* MotionEvent.wait_and_get may return: a value is set
MotionEvent_ready(s) == s # 0

(***************************************************************************)
(* Motion detector: _detection_loop / _handle_motion_event.                *)
(***************************************************************************)
\* motion_detected and not in cooldown: _handle_motion_event calls create_event
DetectMotion ==
    /\ dpc = "idle"
    /\ nextId <= MaxEvents
    /\ dpc' = "creating"
    /\ UNCHANGED <<devent, nextId, created, published, slot, consumed>>
    /\ UNCHANGED <<processorVars, pending, sentinels, storageVars, transferVars, updates, envVars>>
    /\ UNCHANGED notPipeline

\* create_event returns the id of a 2xx response
CreateEventReturns ==
    /\ dpc = "creating"
    /\ devent' = nextId
    /\ nextId' = nextId + 1
    /\ created' = created \cup {nextId}
    /\ dpc' = "created"
    /\ UNCHANGED <<published, slot, consumed>>
    /\ UNCHANGED <<processorVars, pending, sentinels, storageVars, transferVars, updates, envVars>>
    /\ UNCHANGED notPipeline

\* mutant: the detector publishes an id it made up itself
HandleMotionEventId_Local == nextId

\* the id _handle_motion_event publishes after create_event returned
HandleMotionEventId == devent

\* self.motion_event.set(event_id=event_id, ...); cooldown starts
PublishHandle ==
    /\ dpc = "created"
    /\ slot' = MotionEvent_set(slot, HandleMotionEventId)
    /\ published' = Append(published, HandleMotionEventId)
    /\ dpc' = "idle"
    /\ devent' = 0
    /\ UNCHANGED <<nextId, created, consumed>>
    /\ UNCHANGED <<processorVars, pending, sentinels, storageVars, transferVars, updates, envVars>>
    /\ UNCHANGED notPipeline

(***************************************************************************)
(* Event processor: _processing_loop / _process_event.                     *)
(***************************************************************************)
CurrentArtifact == FormatName(pevent, Tags[pk])

\* event_data = self.motion_event.wait_and_get()
ProcWaitAndGet ==
    /\ ppc = "wait"
    /\ MotionEvent_ready(slot)
    /\ pevent' = slot
    /\ consumed' = Append(consumed, slot)
    /\ slot' = 0
    /\ ppc' = "start"
    /\ pk' = 1
    /\ UNCHANGED <<detectorVars, pending, sentinels, storageVars, transferVars, updates, envVars>>
    /\ UNCHANGED notPipeline

\* capture_color_still / _create_thumbnail / save_h264 begins to write the file;
\* the thumbnailer first opens picture A, which the transfer manager may
\* already have moved away (FileNotFoundError ends the event)
ProcStartWrite ==
    /\ ppc = "start"
    /\ IF Tags[pk] = "thumb" /\ pending[FormatName(pevent, "a")] = "absent"
       THEN /\ ppc' = "wait" /\ pk' = 0 /\ pevent' = 0
            /\ UNCHANGED pending
       ELSE /\ pending' = [pending EXCEPT ![CurrentArtifact] = "partial"]
            /\ ppc' = "writing"
            /\ UNCHANGED <<pk, pevent>>
    /\ UNCHANGED <<detectorVars, slot, consumed, sentinels, storageVars, transferVars, updates, envVars>>
    /\ UNCHANGED notPipeline

\* the write returns normally: the file is complete
ProcFinishWrite ==
    /\ ppc = "writing"
    /\ pending' = [pending EXCEPT ![CurrentArtifact] = "complete"]
    /\ ppc' = "written"
    /\ UNCHANGED <<pk, pevent>>
    /\ UNCHANGED <<detectorVars, slot, consumed, sentinels, storageVars, transferVars, updates, envVars>>
    /\ UNCHANGED notPipeline

\* mutant: a failed write is logged and the next artifact is attempted
ProcWriteFails_Continue ==
    /\ ppc = "writing"
    /\ CanFault
    /\ faults' = faults + 1
    /\ \E left \in {"partial", "absent"} :
         pending' = [pending EXCEPT ![CurrentArtifact] = left]
    /\ IF pk < 4
       THEN /\ ppc' = "start" /\ pk' = pk + 1 /\ UNCHANGED pevent
       ELSE /\ ppc' = "wait" /\ pk' = 0 /\ pevent' = 0
    /\ UNCHANGED <<detectorVars, slot, consumed, sentinels, storageVars, transferVars, updates, crashes>>
    /\ UNCHANGED notPipeline

\* mutant: the sentinel is touched in a finally-clause, also for a failed write
ProcWriteFails_Sentinel ==
    /\ ppc = "writing"
    /\ CanFault
    /\ faults' = faults + 1
    /\ pending' = [pending EXCEPT ![CurrentArtifact] = "partial"]
    /\ sentinels' = Append(sentinels, CurrentArtifact)
    /\ ppc' = "wait" /\ pk' = 0 /\ pevent' = 0
    /\ UNCHANGED <<detectorVars, slot, consumed, storageVars, transferVars, updates, crashes>>
    /\ UNCHANGED notPipeline

\* the write raises: except-branch of _process_event, the rest of the event
\* is skipped; the file is left partial or not at all
ProcWriteFails ==
    /\ ppc = "writing"
    /\ CanFault
    /\ faults' = faults + 1
    /\ \E left \in {"partial", "absent"} :
         pending' = [pending EXCEPT ![CurrentArtifact] = left]
    /\ ppc' = "wait" /\ pk' = 0 /\ pevent' = 0
    /\ UNCHANGED <<detectorVars, slot, consumed, sentinels, storageVars, transferVars, updates, crashes>>
    /\ UNCHANGED notPipeline

\* mutant: the sentinel is touched while the write is still running
ProcTouchSentinel_Early ==
    /\ ppc \in {"writing", "written"}
    /\ CurrentArtifact \notin Range(sentinels)
    /\ sentinels' = Append(sentinels, CurrentArtifact)
    /\ IF ppc = "writing"
       THEN UNCHANGED processorVars
       ELSE IF pk < 4
            THEN /\ ppc' = "start" /\ pk' = pk + 1 /\ UNCHANGED pevent
            ELSE /\ ppc' = "wait" /\ pk' = 0 /\ pevent' = 0
    /\ UNCHANGED <<detectorVars, slot, consumed, pending, storageVars, transferVars, updates, envVars>>
    /\ UNCHANGED notPipeline

\* Path(str(path) + ".READY").touch(), then the next artifact
ProcTouchSentinel ==
    /\ ppc = "written"
    /\ sentinels' = IF CurrentArtifact \notin Range(sentinels)
                    THEN Append(sentinels, CurrentArtifact) ELSE sentinels
    /\ IF pk < 4
       THEN /\ ppc' = "start" /\ pk' = pk + 1 /\ UNCHANGED pevent
       ELSE /\ ppc' = "wait" /\ pk' = 0 /\ pevent' = 0
    /\ UNCHANGED <<detectorVars, slot, consumed, pending, storageVars, transferVars, updates, envVars>>
    /\ UNCHANGED notPipeline

(***************************************************************************)
(* Transfer manager: _transfer_loop / _process_sentinel / _transfer_file.  *)
(***************************************************************************)
\* mutant: the copy writes straight to the final name
CopyStarted_InPlace(store, f) == [store EXCEPT !.final[f] = "partial"]

\* shutil.copy2(local_path, temp_path) has opened {dest}/{F}.tmp for writing
CopyStarted(store, f) == [store EXCEPT !.tmp[f] = "partial"]

\* shutil.copy2 returned: {dest}/{F}.tmp holds what the local file holds
CopyDone(store, f, content) == [store EXCEPT !.tmp[f] = content]

\* mutant: the rename leaves an existing destination and the .tmp as they are
Renamed_NoReplace(store, f) ==
    IF store.final[f] # "absent" THEN store
    ELSE [store EXCEPT !.final[f] = store.tmp[f], !.tmp[f] = "absent"]

\* temp_path.rename(dest_path): atomic, replaces an existing destination
Renamed(store, f) == [store EXCEPT !.final[f] = store.tmp[f], !.tmp[f] = "absent"]

\* temp_path.unlink()
TmpRemoved(store, f) == [store EXCEPT !.tmp[f] = "absent"]

RECURSIVE SeqOfSet(_)
SeqOfSet(S) ==
    IF S = {} THEN <<>>
    ELSE LET x == CHOOSE y \in S : TRUE IN <<x>> \o SeqOfSet(S \ {x})

\* mutant: the scan takes every file of pending, sentinel or not
ScanPending_AllFiles ==
    sentinels \o SeqOfSet({n \in Names : pending[n] # "absent" /\ n \notin Range(sentinels)})

\* sorted(self.pending_dir.glob("*.READY"), key=mtime): the files to handle
ScanPending == sentinels

\* time.sleep(check_interval) is over: the next tick's scan
TransferScan ==
    /\ tpc = "sleep"
    /\ tqueue' = ScanPending
    /\ tpc' = "loop"
    /\ UNCHANGED <<tfile, attempt>>
    /\ UNCHANGED <<detectorVars, slot, consumed, processorVars, pending, sentinels, storageVars, updates, envVars>>
    /\ UNCHANGED notPipeline

\* mutant: a failed sentinel ends the tick
AfterFailure_Abort(q) == <<>>

\* a failed _process_sentinel leaves the rest of the tick's sentinels to be handled
AfterFailure(q) == q

\* for sentinel_path in sentinels: the tick ends when the list is exhausted
TransferLoopEnd ==
    /\ tpc = "loop"
    /\ tqueue = <<>>
    /\ tpc' = "sleep"
    /\ tqueue' = <<>>
    /\ UNCHANGED <<tfile, attempt>>
    /\ UNCHANGED <<detectorVars, slot, consumed, processorVars, pending, sentinels, storageVars, updates, envVars>>
    /\ UNCHANGED notPipeline

\* mutant: the companion file is taken to be there
FileExists_Always(f) == TRUE

\* file_path.exists() of _process_sentinel
FileExists(f) == pending[f] # "absent"

\* _process_sentinel up to the start of the copy:
\*   companion missing -> unlink the orphaned sentinel (may raise)
\*   name unparsable   -> leave alone
\*   storage check fails -> defer
\*   else shutil.copy2 starts writing {dest}/{F}.tmp
ProcessSentinelBegin ==
    /\ tpc = "loop" /\ tqueue # <<>>
    /\ LET f == Head(tqueue) IN
       IF ~FileExists(f)
       THEN /\ \/ /\ sentinels' = Remove(sentinels, f)
                  /\ UNCHANGED faults
               \/ /\ CanFault /\ faults' = faults + 1
                  /\ UNCHANGED sentinels
            /\ tqueue' = Tail(tqueue)
            /\ UNCHANGED <<tpc, tfile, attempt, nfs>>
       ELSE IF ~ParseFilename(f).ok
       THEN /\ tqueue' = AfterFailure(Tail(tqueue))
            /\ UNCHANGED <<sentinels, faults, tpc, tfile, attempt, nfs>>
       ELSE IF ~nfsUp
       THEN /\ tqueue' = AfterFailure(Tail(tqueue))
            /\ UNCHANGED <<sentinels, faults, tpc, tfile, attempt, nfs>>
       ELSE /\ tqueue' = Tail(tqueue)
            /\ tfile' = f
            /\ attempt' = <<"check">>
            /\ nfs' = CopyStarted(nfs, f)
            /\ tpc' = "copy"
            /\ UNCHANGED <<sentinels, faults>>
    /\ UNCHANGED <<nfsUp, crashes>>
    /\ UNCHANGED <<detectorVars, slot, consumed, processorVars, pending, updates>>
    /\ UNCHANGED notPipeline

\* mutant: a failed attempt is cleaned up like a successful one
EndAttempt_AsSuccess ==
    /\ tpc' = "unlinkF"
    /\ UNCHANGED <<tfile, attempt, tqueue>>

\* _transfer_file returns False (or its cleanup raised): back to the loop
EndAttempt ==
    /\ tpc' = "loop"
    /\ tfile' = NoFile
    /\ attempt' = <<>>
    /\ tqueue' = AfterFailure(tqueue)

\* shutil.copy2 returns within transfer_timeout: the .tmp holds the content of F
CopyFinishes ==
    /\ tpc = "copy" /\ nfsUp
    /\ nfs' = CopyDone(nfs, tfile, pending[tfile])
    /\ attempt' = Append(attempt, "copy")
    /\ tpc' = "copied"
    /\ UNCHANGED <<tqueue, tfile, nfsUp>>
    /\ UNCHANGED <<detectorVars, slot, consumed, processorVars, pending, sentinels, updates, envVars>>
    /\ UNCHANGED notPipeline

\* shutil.copy2 raises (storage went away, I/O error): the except-branch
\* removes the .tmp if it can
CopyFails ==
    /\ tpc = "copy"
    /\ ~nfsUp \/ CanFault
    /\ faults' = IF nfsUp THEN faults + 1 ELSE faults
    /\ \/ nfs' = TmpRemoved(nfs, tfile)
       \/ UNCHANGED nfs
    /\ EndAttempt
    /\ UNCHANGED <<nfsUp, crashes>>
    /\ UNCHANGED <<detectorVars, slot, consumed, processorVars, pending, sentinels, updates>>
    /\ UNCHANGED notPipeline

\* elapsed > self.transfer_timeout: the .tmp is unlinked, the attempt fails
CopyTimesOut ==
    /\ tpc = "copy" /\ nfsUp
    /\ CanFault
    /\ faults' = faults + 1
    /\ nfs' = TmpRemoved(nfs, tfile)
    /\ EndAttempt
    /\ UNCHANGED <<nfsUp, crashes>>
    /\ UNCHANGED <<detectorVars, slot, consumed, processorVars, pending, sentinels, updates>>
    /\ UNCHANGED notPipeline

\* temp_path.rename(dest_path): the publication step
TransferRename ==
    /\ tpc = "copied" /\ nfsUp
    /\ nfs' = Renamed(nfs, tfile)
    /\ attempt' = Append(attempt, "rename")
    /\ tpc' = "renamed"
    /\ UNCHANGED <<tqueue, tfile, nfsUp>>
    /\ UNCHANGED <<detectorVars, slot, consumed, processorVars, pending, sentinels, updates, envVars>>
    /\ UNCHANGED notPipeline

\* the rename raises: the except-branch removes the .tmp if it can
RenameFails ==
    /\ tpc = "copied"
    /\ ~nfsUp \/ CanFault
    /\ faults' = IF nfsUp THEN faults + 1 ELSE faults
    /\ \/ nfs' = TmpRemoved(nfs, tfile)
       \/ UNCHANGED nfs
    /\ EndAttempt
    /\ UNCHANGED <<nfsUp, crashes>>
    /\ UNCHANGED <<detectorVars, slot, consumed, processorVars, pending, sentinels, updates>>
    /\ UNCHANGED notPipeline

\* the update_file call of _notify_api: (event_id, file_type) of the file
UpdateCall(f) == <<ParseFilename(f).event_id, ParseFilename(f).file_type>>

\* mutant: the server is notified once the copy is done, before the rename
NotifyApi_BeforeRename ==
    /\ tpc = "copied"
    /\ updates' = Append(updates, UpdateCall(tfile))
    /\ attempt' = Append(attempt, "notify")
    /\ tpc' = "unlinkF"
    /\ UNCHANGED <<tqueue, tfile>>
    /\ UNCHANGED <<detectorVars, slot, consumed, processorVars, pending, sentinels, storageVars, envVars>>
    /\ UNCHANGED notPipeline

\* _notify_api: update_file is called; its result does not change the
\* outcome, _transfer_file returns True
NotifyApi ==
    /\ tpc = "renamed"
    /\ updates' = Append(updates, UpdateCall(tfile))
    /\ attempt' = Append(attempt, "notify")
    /\ tpc' = "unlinkF"
    /\ UNCHANGED <<tqueue, tfile>>
    /\ UNCHANGED <<detectorVars, slot, consumed, processorVars, pending, sentinels, storageVars, envVars>>
    /\ UNCHANGED notPipeline

\* mutant: the sentinel is unlinked first, the file after it
UnlinkFile_SentinelFirst ==
    /\ tpc = "unlinkF"
    /\ sentinels' = Remove(sentinels, tfile)
    /\ tpc' = "unlinkS"
    /\ UNCHANGED <<tqueue, tfile, attempt>>
    /\ UNCHANGED <<detectorVars, slot, consumed, processorVars, pending, storageVars, updates, envVars>>
    /\ UNCHANGED notPipeline

\* file_path.unlink() after a successful transfer
UnlinkFile ==
    /\ tpc = "unlinkF"
    /\ pending' = [pending EXCEPT ![tfile] = "absent"]
    /\ tpc' = "unlinkS"
    /\ UNCHANGED <<tqueue, tfile, attempt>>
    /\ UNCHANGED <<detectorVars, slot, consumed, processorVars, sentinels, storageVars, updates, envVars>>
    /\ UNCHANGED notPipeline

\* sentinel_path.unlink(); _process_sentinel returns True
UnlinkSentinel ==
    /\ tpc = "unlinkS"
    /\ sentinels' = Remove(sentinels, tfile)
    /\ tpc' = "loop" /\ tfile' = NoFile /\ attempt' = <<>>
    /\ UNCHANGED <<tqueue>>
    /\ UNCHANGED <<detectorVars, slot, consumed, processorVars, pending, storageVars, updates, envVars>>
    /\ UNCHANGED notPipeline

\* either unlink raises (OSError): caught by the loop's per-sentinel except,
\* file and/or sentinel stay where they are
UnlinkFails ==
    /\ tpc \in {"unlinkF", "unlinkS"}
    /\ CanFault
    /\ faults' = faults + 1
    /\ tpc' = "loop" /\ tfile' = NoFile /\ attempt' = <<>>
    /\ UNCHANGED <<tqueue, crashes>>
    /\ UNCHANGED <<detectorVars, slot, consumed, processorVars, pending, sentinels, storageVars, updates>>
    /\ UNCHANGED notPipeline

(***************************************************************************)
(* Environment: network storage, and the death and restart of the agent.   *)
(***************************************************************************)
NfsFails ==
    /\ nfsUp /\ CanFault
    /\ nfsUp' = FALSE
    /\ faults' = faults + 1
    /\ UNCHANGED <<nfs, crashes>>
    /\ UNCHANGED <<detectorVars, slot, consumed, processorVars, pending, sentinels, transferVars, updates>>
    /\ UNCHANGED notPipeline

NfsRecovers ==
    /\ ~nfsUp
    /\ nfsUp' = TRUE
    /\ UNCHANGED nfs
    /\ UNCHANGED <<detectorVars, slot, consumed, processorVars, pending, sentinels, transferVars, updates, envVars>>
    /\ UNCHANGED notPipeline

\* the process dies at any point and the supervisor starts it again:
\* memory is lost, the pending directory and network storage are kept
CrashRestart ==
    /\ CanFault
    /\ faults' = faults + 1
    /\ crashes' = crashes + 1
    /\ dpc' = "idle" /\ devent' = 0
    /\ slot' = 0
    /\ ppc' = "wait" /\ pk' = 0 /\ pevent' = 0
    /\ tpc' = "sleep" /\ tqueue' = <<>> /\ tfile' = NoFile
    /\ attempt' = <<>> /\ updates' = <<>>
    /\ UNCHANGED <<nextId, created, published, consumed, pending, sentinels, storageVars>>
    /\ UNCHANGED notPipeline

Next ==
    \/ DetectMotion
    \/ CreateEventReturns
    \/ PublishHandle
    \/ ProcWaitAndGet
    \/ ProcStartWrite
    \/ ProcFinishWrite
    \/ ProcWriteFails
    \/ ProcTouchSentinel
    \/ TransferScan
    \/ TransferLoopEnd
    \/ ProcessSentinelBegin
    \/ CopyFinishes
    \/ CopyFails
    \/ CopyTimesOut
    \/ TransferRename
    \/ RenameFails
    \/ NotifyApi
    \/ UnlinkFile
    \/ UnlinkSentinel
    \/ UnlinkFails
    \/ NfsFails
    \/ NfsRecovers
    \/ CrashRestart

Spec == Init /\ [][Next]_vars

(***************************************************************************)
(* LiveSpec: the transfer thread is a daemon thread that keeps being       *)
(* scheduled, so a step it can take is eventually taken.  Failures are     *)
(* left to the environment.                                                *)
(***************************************************************************)
TransferProgress ==
    \/ TransferScan
    \/ TransferLoopEnd
    \/ ProcessSentinelBegin
    \/ CopyFinishes
    \/ TransferRename
    \/ NotifyApi
    \/ UnlinkFile
    \/ UnlinkSentinel

LiveSpec == Init /\ [][Next]_vars /\ WF_vars(TransferProgress)

(***************************************************************************)
(* DrainSpec: the transfer manager alone, started on a pending directory   *)
(* that holds picture A of event 1, staged by an earlier run, and any      *)
(* malformed pairs an operator has dropped there.                          *)
(***************************************************************************)
DrainInit ==
    /\ dpc = "idle" /\ devent = 0 /\ nextId = 2
    /\ created = {1} /\ published = <<1>>
    /\ slot = 0 /\ consumed = <<1>>
    /\ ppc = "wait" /\ pk = 0 /\ pevent = 0
    /\ \E m \in SUBSET MalformedNames : \E first \in BOOLEAN :
        LET staged == m \cup {FormatName(1, "a")} IN
        /\ pending = [n \in DrainNames |-> IF n \in staged THEN "complete" ELSE "absent"]
        /\ sentinels = IF first THEN <<FormatName(1, "a")>> \o SeqOfSet(m)
                                 ELSE SeqOfSet(m) \o <<FormatName(1, "a")>>
    /\ nfsUp = TRUE
    /\ nfs = [tmp |-> [n \in DrainNames |-> "absent"], final |-> [n \in DrainNames |-> "absent"]]
    /\ tpc = "sleep" /\ tqueue = <<>> /\ tfile = NoFile
    /\ attempt = <<>> /\ updates = <<>>
    /\ faults = 0 /\ crashes = 1
    /\ TimedIdle(MOTION_COOLDOWN_SECONDS) /\ CooldownIdle /\ ApiIdle /\ MountIdle /\ SystemIdle /\ LoggerIdle /\ BufferIdle /\ ParserIdle /\ NotifyIdle /\ PauseIdle /\ TickIdle

DrainNext ==
    \/ TransferScan
    \/ TransferLoopEnd
    \/ ProcessSentinelBegin
    \/ CopyFinishes
    \/ CopyFails
    \/ CopyTimesOut
    \/ TransferRename
    \/ RenameFails
    \/ NotifyApi
    \/ UnlinkFile
    \/ UnlinkSentinel
    \/ UnlinkFails
    \/ NfsFails
    \/ NfsRecovers

DrainSpec == DrainInit /\ [][DrainNext]_vars

(***************************************************************************)
(* ResumeSpec: the transfer manager alone, started on a pending directory  *)
(* that holds the four artifacts of event 1 with their sentinels, touched  *)
(* in the order of _process_event; network storage is up or down, and      *)
(* update_file may fail.                                                   *)
(***************************************************************************)
ResumeInit ==
    /\ dpc = "idle" /\ devent = 0 /\ nextId = 2
    /\ created = {1} /\ published = <<1>>
    /\ slot = 0 /\ consumed = <<1>>
    /\ ppc = "wait" /\ pk = 0 /\ pevent = 0
    /\ pending = [n \in Names |-> IF \E k \in 1..4 : n = FormatName(1, Tags[k])
                                  THEN "complete" ELSE "absent"]
    /\ sentinels = [k \in 1..4 |-> FormatName(1, Tags[k])]
    /\ nfsUp \in BOOLEAN
    /\ nfs = [tmp |-> [n \in Names |-> "absent"], final |-> [n \in Names |-> "absent"]]
    /\ tpc = "sleep" /\ tqueue = <<>> /\ tfile = NoFile
    /\ attempt = <<>> /\ updates = <<>>
    /\ faults = 0 /\ crashes = 1
    /\ TimedIdle(MOTION_COOLDOWN_SECONDS) /\ CooldownIdle /\ ApiIdle /\ MountIdle /\ SystemIdle /\ LoggerIdle /\ BufferIdle /\ ParserIdle /\ PauseIdle /\ TickIdle
    /\ NotifyIdle

\* where _transfer_file goes after _notify_api returned: "Don't fail the
\* transfer - file is on NFS", it returns True whatever the result
NotifyApiResult(ok) == "unlinkF"

\* _notify_api returns False: update_file returned False after its
\* retries, or raised and the exception was caught
NotifyApiFails ==
    /\ tpc = "renamed"
    /\ updates' = Append(updates, UpdateCall(tfile))
    /\ attempt' = Append(attempt, "notify")
    /\ tpc' = NotifyApiResult(FALSE)
    /\ unnotified' = unnotified \cup {tfile}
    /\ UNCHANGED <<tqueue, tfile>>
    /\ UNCHANGED <<detectorVars, slot, consumed, processorVars, pending, sentinels, storageVars, envVars>>
    /\ UNCHANGED <<timedVars, detection, api, nfsMount, system, apiLogger, circular, parser, procPause, tick>>

ResumeNext ==
    \/ TransferScan
    \/ TransferLoopEnd
    \/ ProcessSentinelBegin
    \/ CopyFinishes
    \/ CopyFails
    \/ CopyTimesOut
    \/ TransferRename
    \/ RenameFails
    \/ NotifyApi
    \/ NotifyApiFails
    \/ UnlinkFile
    \/ UnlinkSentinel
    \/ UnlinkFails
    \/ NfsFails
    \/ NfsRecovers

ResumeSpec == ResumeInit /\ [][ResumeNext]_vars

(***************************************************************************)
(* TimedSpec: the detector's cooldown against the duration of the          *)
(* processor's timed sequence, one step of TimedTick per second.           *)
(***************************************************************************)
\* validate_config: MOTION_COOLDOWN_SECONDS < 17 raises ValueError
ValidateConfig(c) == c >= MinCooldown

CooldownChoices == {MinCooldown - 1, MinCooldown, VideoDoneAt + 1, MOTION_COOLDOWN_SECONDS}

TimedInit ==
    /\ InitPipeline /\ CooldownIdle /\ ApiIdle /\ MountIdle /\ SystemIdle /\ LoggerIdle /\ BufferIdle /\ ParserIdle /\ NotifyIdle /\ PauseIdle /\ TickIdle
    /\ \E c \in CooldownChoices : ValidateConfig(c) /\ TimedIdle(c)

\* MotionDetector._in_cooldown (last_detection_time == 0 reads as "long ago")
InCooldown == sinceDetection < cooldown_seconds

\* a tick of _detection_loop sees motion outside cooldown: create_event
\* returns the next id, _handle_motion_event publishes it and cooldown starts
TimedDetect ==
    /\ ~InCooldown
    /\ hnext <= TimedMaxEvents
    /\ hlost' = IF hslot # 0 THEN hlost \cup {hslot} ELSE hlost
    /\ hslot' = MotionEvent_set(hslot, hnext)
    /\ hpublished' = Append(hpublished, hnext)
    /\ hnext' = hnext + 1
    /\ sinceDetection' = 0
    /\ UNCHANGED <<cooldown_seconds, busyFor, hconsumed>>
    /\ UNCHANGED notTimed

\* _processing_loop: wait_and_get returns and _process_event runs for
\* 4 s plus the time the video flush takes
TimedWaitAndGet ==
    /\ busyFor = 0
    /\ MotionEvent_ready(hslot)
    /\ hconsumed' = Append(hconsumed, hslot)
    /\ hslot' = 0
    /\ \E flush \in 0..(VideoDoneAt - PictureBDelay) : busyFor' = PictureBDelay + flush
    /\ UNCHANGED <<cooldown_seconds, sinceDetection, hnext, hpublished, hlost>>
    /\ UNCHANGED notTimed

\* one second passes; a processor blocked in wait_and_get wakes up before
\* that when a handle is there
TimedTick ==
    /\ ~(busyFor = 0 /\ MotionEvent_ready(hslot))
    /\ sinceDetection' = IF sinceDetection < cooldown_seconds THEN sinceDetection + 1 ELSE sinceDetection
    /\ busyFor' = IF busyFor > 0 THEN busyFor - 1 ELSE 0
    /\ UNCHANGED <<cooldown_seconds, hslot, hnext, hpublished, hconsumed, hlost>>
    /\ UNCHANGED notTimed

TimedNext ==
    \/ TimedDetect
    \/ TimedWaitAndGet
    \/ TimedTick

TimedSpec == TimedInit /\ [][TimedNext]_vars

(***************************************************************************)
(* CooldownSpec: _detection_loop against time.time().  The clock is taken  *)
(* to be monotonic; any amount of time may pass between two steps of the   *)
(* loop and inside create_event.                                           *)
(***************************************************************************)
CooldownInit ==
    /\ InitPipeline /\ ApiIdle /\ CooldownIdle /\ MountIdle /\ SystemIdle /\ LoggerIdle /\ BufferIdle /\ ParserIdle /\ NotifyIdle /\ PauseIdle /\ TickIdle
    /\ \E c \in CooldownChoices : ValidateConfig(c) /\ TimedIdle(c)

\* mutant: the comparison is made against a stale or shortened window
InCooldownAt_Short(t) ==
    IF detection.last_detection_time = 0 THEN FALSE
    ELSE t - detection.last_detection_time < cooldown_seconds - 1

\* MotionDetector._in_cooldown with time.time() = t
InCooldownAt(t) ==
    IF detection.last_detection_time = 0 THEN FALSE
    ELSE t - detection.last_detection_time < cooldown_seconds

\* time passes
ClockTick ==
    /\ detection.now < MaxClock
    /\ detection' = [detection EXCEPT !.now = @ + 1]
    /\ UNCHANGED notCooldown

\* a tick of _detection_loop outside cooldown finds motion_detected
DetectorCheck ==
    /\ detection.pc = "loop"
    /\ ~InCooldownAt(detection.now)
    /\ detection' = [detection EXCEPT !.pc = "detected"]
    /\ UNCHANGED notCooldown

\* _handle_motion_event calls self.api_client.create_event
StartCreateEvent ==
    /\ detection.pc = "detected"
    /\ detection' =
         [detection EXCEPT
            !.pc = "creating",
            !.windowStart = IF @ = 0 THEN detection.now ELSE @,
            !.windowCalls =
                IF detection.windowStart = 0 THEN 1
                ELSE IF detection.now < detection.windowStart + cooldown_seconds THEN @ + 1
                ELSE @]
    /\ UNCHANGED notCooldown

\* create_event returns an id and motion_event.set publishes the handle
CreateEventDone ==
    /\ detection.pc = "creating"
    /\ detection' = [detection EXCEPT !.pc = "published"]
    /\ UNCHANGED notCooldown

\* create_event or motion_event.set raises: the except-branch
CreateEventRaises ==
    /\ detection.pc = "creating"
    /\ detection' = [detection EXCEPT !.pc = "failed"]
    /\ UNCHANGED notCooldown

\* mutant: the except-branch leaves last_detection_time alone
EnterCooldown_OnlyOnSuccess ==
    /\ detection.pc \in {"published", "failed"}
    /\ detection' = [detection EXCEPT
                        !.last_detection_time = IF detection.pc = "published" THEN detection.now ELSE @,
                        !.pc = "loop"]
    /\ UNCHANGED notCooldown

\* self.last_detection_time = time.time(), on both paths
EnterCooldown ==
    /\ detection.pc \in {"published", "failed"}
    /\ detection' = [detection EXCEPT !.last_detection_time = detection.now, !.pc = "loop"]
    /\ UNCHANGED notCooldown

CooldownNext ==
    \/ ClockTick
    \/ DetectorCheck
    \/ StartCreateEvent
    \/ CreateEventDone
    \/ CreateEventRaises
    \/ EnterCooldown

CooldownSpec == CooldownInit /\ [][CooldownNext]_vars

(***************************************************************************)
(* ApiSpec: one call of an APIClient operation at a time; every attempt    *)
(* receives an HTTP response or an exception of the requests library.      *)
(***************************************************************************)
Operations == {"register_camera", "create_event", "update_file", "send_logs"}

Statuses == {200, 201, 404, 500}

Ids == {"7"}

Exceptions == {"Timeout", "ConnectionError", "RequestException", "Exception"}

\* what session.post / session.patch gives one attempt: a response with a
\* status and a JSON object (with or without "id"), or a raised exception
Responses ==
    {[kind |-> "http", status |-> st, id |-> i] : st \in Statuses, i \in Ids \cup {"None"}}
      \cup {[kind |-> k, status |-> 0, id |-> "None"] : k \in Exceptions}

\* response.status_code in [200, 201]
StatusOk(r) == r.kind = "http" /\ r.status \in {200, 201}

ApiInit == InitPipeline /\ TimedIdle(MOTION_COOLDOWN_SECONDS) /\ CooldownIdle /\ ApiIdle /\ MountIdle /\ SystemIdle /\ LoggerIdle /\ BufferIdle /\ ParserIdle /\ NotifyIdle /\ PauseIdle /\ TickIdle

\* a caller enters one of the operations
ApiCall ==
    /\ api.op = "none"
    /\ \E op \in Operations, n \in 0..1 :
         api' = [op |-> op, batch |-> IF op = "send_logs" THEN n ELSE 0,
                 attempt |-> 0, delays |-> <<>>, resp |-> NoResponse,
                 result |-> "pending", caller |-> "blocked"]
    /\ UNCHANGED notApi

\* mutant: registration gives up after three failed attempts
RegisterCameraReturn_GivesUp(r, att) ==
    IF StatusOk(r) THEN "True" ELSE IF att >= 3 THEN "False" ELSE "retry"

\* register_camera, one pass of while True: return True on 200/201, else
\* fall through to the delay
RegisterCameraReturn(r, att) ==
    IF StatusOk(r) THEN "True" ELSE "retry"

\* mutant: the delay keeps doubling
RegisterCameraDelay_Doubling(att) ==
    IF att = 1 THEN 0 ELSE 5 * 2 ^ (att - 2)

\* register_camera: "Calculate retry delay with progressive backoff"
RegisterCameraDelay(att) ==
    IF att = 1 THEN 0
    ELSE IF att = 2 THEN 5
    ELSE IF att = 3 THEN 10
    ELSE 30

RegisterCameraAttempt ==
    /\ api.op = "register_camera" /\ api.result = "pending"
    /\ \E r \in Responses :
         LET att == api.attempt + 1
             ret == RegisterCameraReturn(r, att) IN
         /\ ret = "retry" => att < MaxAttempts
         /\ api' = IF ret = "retry"
                   THEN [api EXCEPT !.attempt = att, !.resp = r,
                                    !.delays = Append(@, RegisterCameraDelay(att))]
                   ELSE [api EXCEPT !.attempt = att, !.resp = r, !.result = ret]
    /\ UNCHANGED notApi

\* mutant: the id of a 2xx response is returned as it is
CreateEventReturn_Unchecked(r) ==
    IF StatusOk(r) THEN r.id ELSE "retry"

\* create_event, one pass of while True: the id of a 200/201 response;
\* a missing id raises ValueError, which is caught like every other failure
CreateEventReturn(r) ==
    IF StatusOk(r)
    THEN IF r.id = "None" THEN "retry" ELSE r.id
    ELSE "retry"

\* create_event: "Calculate retry delay with progressive backoff"
CreateEventDelay(att) ==
    IF att = 1 THEN 0
    ELSE IF att = 2 THEN 5
    ELSE IF att = 3 THEN 10
    ELSE 30

CreateEventAttempt ==
    /\ api.op = "create_event" /\ api.result = "pending"
    /\ \E r \in Responses :
         LET att == api.attempt + 1
             ret == CreateEventReturn(r) IN
         /\ ret = "retry" => att < MaxAttempts
         /\ api' = IF ret = "retry"
                   THEN [api EXCEPT !.attempt = att, !.resp = r,
                                    !.delays = Append(@, CreateEventDelay(att))]
                   ELSE [api EXCEPT !.attempt = att, !.resp = r, !.result = ret]
    /\ UNCHANGED notApi

\* update_file: max_retries = 3
UpdateFileMaxRetries == 3

\* update_file: delay = 2 ** (attempt - 1)
UpdateFileDelay(att) == 2 ^ (att - 1)

\* update_file, one pass of for attempt in range(1, max_retries + 1); the
\* pass of the last attempt falls out of the loop and returns False
UpdateFileAttempt ==
    /\ api.op = "update_file" /\ api.result = "pending"
    /\ \E r \in Responses :
         LET att == api.attempt + 1 IN
         api' = IF StatusOk(r)
                THEN [api EXCEPT !.attempt = att, !.resp = r, !.result = "True"]
                ELSE IF att < UpdateFileMaxRetries
                THEN [api EXCEPT !.attempt = att, !.resp = r,
                                 !.delays = Append(@, UpdateFileDelay(att))]
                ELSE [api EXCEPT !.attempt = att, !.resp = r, !.result = "False"]
    /\ UNCHANGED notApi

\* send_logs: max_retries = 2
SendLogsMaxRetries == 2

\* send_logs: retry_delays = [1, 5]
retry_delays == <<1, 5>>

\* send_logs: "if not log_entries: return True"
SendLogsEmpty ==
    /\ api.op = "send_logs" /\ api.result = "pending" /\ api.batch = 0
    /\ api' = [api EXCEPT !.result = "True"]
    /\ UNCHANGED notApi

\* send_logs, one pass of for attempt in range(1, max_retries + 1)
SendLogsAttempt ==
    /\ api.op = "send_logs" /\ api.result = "pending" /\ api.batch > 0
    /\ \E r \in Responses :
         LET att == api.attempt + 1 IN
         api' = IF StatusOk(r)
                THEN [api EXCEPT !.attempt = att, !.resp = r, !.result = "True"]
                ELSE IF att < SendLogsMaxRetries
                THEN [api EXCEPT !.attempt = att, !.resp = r,
                                 !.delays = Append(@, retry_delays[att])]
                ELSE [api EXCEPT !.attempt = att, !.resp = r, !.result = "False"]
    /\ UNCHANGED notApi

\* what the caller does once the operation has returned:
\*   _handle_motion_event: "if event_id is None" -> the event is lost,
\*                          else motion_event.set
\*   initialize: goes on to create the components
\*   _notify_api / _flush_logs: go on, whatever the result
CallerBranch(op, result) ==
    IF op = "create_event"
    THEN IF result = "None" THEN "event_lost" ELSE "published"
    ELSE IF op = "register_camera" THEN "registered"
    ELSE "continued"

CallerContinues ==
    /\ api.op # "none" /\ api.result # "pending"
    /\ api' = [api EXCEPT !.caller = CallerBranch(api.op, api.result), !.op = "none"]
    /\ UNCHANGED notApi

ApiNext ==
    \/ ApiCall
    \/ RegisterCameraAttempt
    \/ CreateEventAttempt
    \/ UpdateFileAttempt
    \/ SendLogsEmpty
    \/ SendLogsAttempt
    \/ CallerContinues

ApiSpec == ApiInit /\ [][ApiNext]_vars

(***************************************************************************)
(* MountSpec: _transfer_file for the four artifacts of event 1 against a   *)
(* mount whose state changes at any time.                                  *)
(***************************************************************************)
MountInit ==
    /\ InitPipeline /\ TimedIdle(MOTION_COOLDOWN_SECONDS) /\ CooldownIdle /\ ApiIdle /\ SystemIdle /\ LoggerIdle /\ BufferIdle /\ ParserIdle /\ NotifyIdle /\ PauseIdle /\ TickIdle
    /\ \E b \in BOOLEAN, d \in SUBSET Subdirs, w \in BOOLEAN :
         nfsMount = [base |-> b, subdirs |-> d, writable |-> w,
                     staged |-> {FormatName(1, Tags[k]) : k \in 1..4},
                     tmp |-> {}, final |-> {}, notified |-> {},
                     file |-> NoFile, last |-> "none"]

\* mutant: the subdirectories are not looked at
CheckNfsMounted_NoSubdirs(m) ==
    IF ~m.base THEN FALSE
    ELSE m.writable

\* TransferManager._check_nfs_mounted: mount point, then the three
\* subdirectories, then the write probe; an exception returns False
CheckNfsMounted(m) ==
    IF ~m.base THEN FALSE
    ELSE IF \E d \in Subdirs : d \notin m.subdirs THEN FALSE
    ELSE m.writable

\* the mount point, a subdirectory or write access comes or goes
MountChanges ==
    /\ \E b \in BOOLEAN, d \in SUBSET Subdirs, w \in BOOLEAN :
         nfsMount' = [nfsMount EXCEPT !.base = b, !.subdirs = d, !.writable = w]
    /\ UNCHANGED notMount

\* _transfer_file up to the start of the copy: the check fails and it
\* returns False, or dest_dir.mkdir and shutil.copy2 opens the .tmp
TransferFileBegin ==
    /\ nfsMount.file = NoFile
    /\ \E f \in nfsMount.staged :
         nfsMount' =
            IF ~CheckNfsMounted(nfsMount)
            THEN [nfsMount EXCEPT !.last = "deferred"]
            ELSE [nfsMount EXCEPT !.subdirs = @ \cup {ParseFilename(f).dest_subdir},
                                  !.tmp = @ \cup {f}, !.file = f, !.last = "copying"]
    /\ UNCHANGED notMount

\* copy2 returns, rename, _notify_api, return True; _process_sentinel
\* unlinks the file and its sentinel
TransferFileFinish ==
    /\ nfsMount.file # NoFile
    /\ nfsMount.base /\ nfsMount.writable
    /\ nfsMount' = [nfsMount EXCEPT !.tmp = @ \ {nfsMount.file},
                                    !.final = @ \cup {nfsMount.file},
                                    !.notified = @ \cup {nfsMount.file},
                                    !.staged = @ \ {nfsMount.file},
                                    !.file = NoFile, !.last = "True"]
    /\ UNCHANGED notMount

\* copy2 or rename raises: the except-branch unlinks the .tmp if it can
\* and returns False
TransferFileFails ==
    /\ nfsMount.file # NoFile
    /\ \/ /\ nfsMount.base /\ nfsMount.writable
          /\ nfsMount' = [nfsMount EXCEPT !.tmp = @ \ {nfsMount.file},
                                          !.file = NoFile, !.last = "False"]
       \/ nfsMount' = [nfsMount EXCEPT !.file = NoFile, !.last = "False"]
    /\ UNCHANGED notMount

MountNext ==
    \/ MountChanges
    \/ TransferFileBegin
    \/ TransferFileFinish
    \/ TransferFileFails

MountSpec == MountInit /\ [][MountNext]_vars

(***************************************************************************)
(* LifecycleSpec: main() -> SecurityCameraSystem.run(): initialize, start, *)
(* supervise, stop, together with the loops of the threads it starts.      *)
(***************************************************************************)
\* main() before SecurityCameraSystem(): no logger, no component, no thread
LifecycleInit ==
    /\ InitPipeline /\ TimedIdle(MOTION_COOLDOWN_SECONDS) /\ CooldownIdle /\ ApiIdle /\ LoggerIdle /\ BufferIdle /\ ParserIdle /\ NotifyIdle /\ PauseIdle /\ TickIdle
    /\ MountIdle
    /\ system = [pc |-> "new", done |-> <<>>, running |-> FALSE,
                 flag |-> [a \in Activities |-> FALSE],
                 thread |-> [a \in Activities |-> "none"],
                 handle |-> FALSE, exit |-> -1,
                 frames |-> <<>>, signals |-> 0, sleeping |-> FALSE]

\* mutant: the components are created before the camera is registered
InitializeOrder_ComponentsFirst ==
    <<"validate_config", "ensure_directories", "create_api_client",
      "create_motion_event", "create_buffer", "create_detector",
      "create_processor", "create_transfer_manager", "register_camera">>

\* initialize(): the statements of its try block, in program order
InitializeOrder ==
    <<"validate_config", "ensure_directories", "create_api_client", "register_camera",
      "create_motion_event", "create_buffer", "create_detector",
      "create_processor", "create_transfer_manager">>

\* start(): the statements of its try block, in program order
StartOrder ==
    <<"start_buffer", "start_detector", "start_processor", "start_transfer_manager">>

\* stop(): the statements of its try block, in program order
StopOrder ==
    <<"stop_detector", "stop_processor", "stop_transfer_manager", "stop_buffer",
      "close_api_client", "stop_logger">>

\* the activity whose thread a start step starts / whose flag a stop step clears
ActivityOf(step) ==
    IF step \in {"start_detector", "stop_detector"} THEN "detector"
    ELSE IF step \in {"start_processor", "stop_processor"} THEN "processor"
    ELSE IF step \in {"start_transfer_manager", "stop_transfer_manager"} THEN "transfer"
    ELSE IF step \in {"create_logger", "stop_logger"} THEN "logger"
    ELSE "none"

\* the steps of `order` that are in `done`
DoneOf(order) == SelectSeq(system.done, LAMBDA x : x \in Range(order))

\* the main thread is executing run() itself, not a signal handler
InMain == system.frames = <<>>

\* the statement of initialize() the main thread has reached
NextInitialize == InitializeOrder[Len(DoneOf(InitializeOrder)) + 1]

\* SecurityCameraSystem.__init__: its log("System initializing...") is the
\* first log call of the process, so get_logger() constructs the APILogger
\* (with an APIClient of its own) and starts the LogWriter thread
Construct ==
    /\ system.pc = "new"
    /\ system' = [system EXCEPT !.pc = "initialize",
                                !.done = Append(@, "create_logger"),
                                !.flag["logger"] = TRUE,
                                !.thread["logger"] = "sleep"]
    /\ UNCHANGED notSystem

\* the next statement of initialize() other than register_camera returns
InitializeStep ==
    /\ system.pc = "initialize" /\ InMain
    /\ LET k == Len(DoneOf(InitializeOrder)) + 1
           step == InitializeOrder[k] IN
       /\ step # "register_camera"
       /\ system' = [system EXCEPT
                        !.done = Append(@, step),
                        !.pc = IF k = Len(InitializeOrder) THEN "start" ELSE @]
    /\ UNCHANGED notSystem

\* register_camera(): an attempt gets no 200/201 and the loop goes to
\* time.sleep(delay), or the sleep is over and the next attempt is made;
\* nothing in the loop reads a flag a signal could have set
RegisterCameraRetries ==
    /\ system.pc = "initialize" /\ InMain
    /\ NextInitialize = "register_camera"
    /\ system' = [system EXCEPT !.sleeping = ~@]
    /\ UNCHANGED notSystem

\* register_camera() returns: the server has answered 200/201
RegisterCameraSucceeds ==
    /\ system.pc = "initialize" /\ InMain /\ ~system.sleeping
    /\ LET k == Len(DoneOf(InitializeOrder)) + 1 IN
       /\ InitializeOrder[k] = "register_camera"
       /\ system' = [system EXCEPT
                        !.done = Append(@, "register_camera"),
                        !.pc = IF k = Len(InitializeOrder) THEN "start" ELSE @]
    /\ UNCHANGED notSystem

\* validate_config or a constructor raises: initialize() returns False and
\* run() returns 1
InitializeFails ==
    /\ system.pc = "initialize" /\ InMain
    /\ NextInitialize # "register_camera"
    /\ system' = [system EXCEPT !.pc = "exit", !.exit = 1]
    /\ UNCHANGED notSystem

\* the next statement of start() returns; after the last, running = True
StartStep ==
    /\ system.pc = "start" /\ InMain
    /\ LET k == Len(DoneOf(StartOrder)) + 1
           step == StartOrder[k]
           a == ActivityOf(step) IN
       system' = [system EXCEPT
                    !.done = Append(@, step),
                    !.flag = IF a = "none" THEN @ ELSE [@ EXCEPT ![a] = TRUE],
                    !.thread = IF a = "none" THEN @ ELSE [@ EXCEPT ![a] = "head"],
                    !.running = (k = Len(StartOrder)),
                    !.pc = IF k = Len(StartOrder) THEN "run" ELSE @]
    /\ UNCHANGED notSystem

\* a start() statement raises: start() returns False and run() calls stop()
StartFails ==
    /\ system.pc = "start" /\ InMain
    /\ system' = [system EXCEPT !.pc = "failed",
                                !.frames = <<[pc |-> "guard", k |-> 0]>>]
    /\ UNCHANGED notSystem

\* SIGINT/SIGTERM once main() has installed signal_handler: the handler runs
\* in the main thread, on top of whatever that thread was executing (a
\* handler included), and calls stop()
Signal ==
    /\ system.pc \notin {"new", "exit"}
    /\ system.signals < MaxSignals
    /\ system' = [system EXCEPT !.frames = Append(@, [pc |-> "guard", k |-> 0]),
                                !.signals = @ + 1]
    /\ UNCHANGED notSystem

\* the stop() call the main thread is executing
Top == system.frames[Len(system.frames)]

CallerFrames == SubSeq(system.frames, 1, Len(system.frames) - 1)

\* stop(): "if not self.running: return"
StopGuard ==
    /\ system.frames # <<>> /\ Top.pc = "guard"
    /\ system' = [system EXCEPT
                    !.frames = IF system.running
                               THEN [@ EXCEPT ![Len(@)].pc = "flag"]
                               ELSE CallerFrames]
    /\ UNCHANGED notSystem

\* stop(): "self.running = False", after the log and print calls that
\* follow the guard
StopSetsRunning ==
    /\ system.frames # <<>> /\ Top.pc = "flag"
    /\ system' = [system EXCEPT !.running = FALSE,
                                !.frames = [@ EXCEPT ![Len(@)].pc = "sequence"]]
    /\ UNCHANGED notSystem

\* the next statement of stop(): a component's stop() clears its running
\* attribute and joins its thread with a timeout, so it returns whether or
\* not the thread has exited; after the last, stop() returns
StopStep ==
    /\ system.frames # <<>> /\ Top.pc = "sequence"
    /\ LET k == Top.k + 1
           step == StopOrder[k]
           a == ActivityOf(step) IN
       system' = [system EXCEPT
                    !.done = Append(@, step),
                    !.flag = IF a = "none" THEN @ ELSE [@ EXCEPT ![a] = FALSE],
                    !.frames = IF k = Len(StopOrder) THEN CallerFrames
                               ELSE [@ EXCEPT ![Len(@)].k = k]]
    /\ UNCHANGED notSystem

\* run(): "while self.running" finds running False and run() calls stop()
LoopExits ==
    /\ system.pc = "run" /\ InMain
    /\ ~system.running
    /\ system' = [system EXCEPT !.pc = "leaving",
                                !.frames = <<[pc |-> "guard", k |-> 0]>>]
    /\ UNCHANGED notSystem

\* run() returns 1 after a failed start, 0 after its loop; main() exits with it
RunReturns ==
    /\ system.pc \in {"failed", "leaving"} /\ InMain
    /\ system' = [system EXCEPT !.pc = "exit",
                                !.exit = IF system.pc = "failed" THEN 1 ELSE 0]
    /\ UNCHANGED notSystem

\* "while self.running:" at the head of an activity's loop
LoopHead(a, body) ==
    /\ system.thread[a] = "head"
    /\ system' = [system EXCEPT !.thread[a] = IF system.flag[a] THEN body ELSE "exited"]
    /\ UNCHANGED notSystem

\* _detection_loop: a tick; with motion it calls create_event
DetectorLoop == LoopHead("detector", "tick")

DetectorTick ==
    /\ system.thread["detector"] = "tick"
    /\ \E motion \in BOOLEAN :
         system' = [system EXCEPT
                      !.thread["detector"] = IF motion THEN "create_event" ELSE "head"]
    /\ UNCHANGED notSystem

\* the server acknowledges: create_event returns, the handle is published
CreateEventAcknowledged ==
    /\ system.thread["detector"] = "create_event"
    /\ system' = [system EXCEPT !.thread["detector"] = "head", !.handle = TRUE]
    /\ UNCHANGED notSystem

\* _processing_loop: wait_and_get blocks until a handle is there
ProcessorLoop == LoopHead("processor", "wait_and_get")

ProcessorGetsHandle ==
    /\ system.thread["processor"] = "wait_and_get"
    /\ MotionEvent_ready(IF system.handle THEN 1 ELSE 0)
    /\ system' = [system EXCEPT !.thread["processor"] = "processing", !.handle = FALSE]
    /\ UNCHANGED notSystem

ProcessorDone ==
    /\ system.thread["processor"] = "processing"
    /\ system' = [system EXCEPT !.thread["processor"] = "head"]
    /\ UNCHANGED notSystem

\* _transfer_loop: one scan and time.sleep(check_interval)
TransferLoop == LoopHead("transfer", "scan")

TransferTick ==
    /\ system.thread["transfer"] = "scan"
    /\ system' = [system EXCEPT !.thread["transfer"] = "head"]
    /\ UNCHANGED notSystem

\* _batch_writer: time.sleep(batch_interval), _flush_logs, then the test of
\* self.running
LogWriterFlush ==
    /\ system.thread["logger"] = "sleep"
    /\ system' = [system EXCEPT !.thread["logger"] = "head"]
    /\ UNCHANGED notSystem

LogWriterLoop == LoopHead("logger", "sleep")

ThreadStep ==
    \/ DetectorLoop
    \/ DetectorTick
    \/ ProcessorLoop
    \/ ProcessorGetsHandle
    \/ ProcessorDone
    \/ TransferLoop
    \/ TransferTick
    \/ LogWriterFlush
    \/ LogWriterLoop

MainStep ==
    \/ Construct
    \/ InitializeStep
    \/ RegisterCameraRetries
    \/ StartStep
    \/ StopGuard
    \/ StopSetsRunning
    \/ StopStep
    \/ LoopExits
    \/ RunReturns

LifecycleNext ==
    \/ Construct
    \/ InitializeStep
    \/ RegisterCameraRetries
    \/ RegisterCameraSucceeds
    \/ InitializeFails
    \/ StartStep
    \/ StartFails
    \/ Signal
    \/ StopGuard
    \/ StopSetsRunning
    \/ StopStep
    \/ LoopExits
    \/ RunReturns
    \/ DetectorLoop
    \/ DetectorTick
    \/ CreateEventAcknowledged
    \/ ProcessorLoop
    \/ ProcessorGetsHandle
    \/ ProcessorDone
    \/ TransferLoop
    \/ TransferTick
    \/ LogWriterFlush
    \/ LogWriterLoop

LifecycleSpec == LifecycleInit /\ [][LifecycleNext]_vars

\* the main thread and the activity threads keep being scheduled while the
\* process lives; signals, failures and the server's answers are left to
\* the environment
LifecycleLiveSpec ==
    LifecycleInit /\ [][LifecycleNext]_vars /\ WF_vars(MainStep) /\ WF_vars(ThreadStep)

(***************************************************************************)
(* LoggerSpec: APILogger. log() enqueues, the LogWriter thread flushes     *)
(* every batch interval, stop() flushes once more in the caller's thread.  *)
(***************************************************************************)
\* APILogger.__init__: empty queue, running = True, writer thread started
LoggerInit ==
    /\ InitPipeline /\ TimedIdle(MOTION_COOLDOWN_SECONDS) /\ CooldownIdle /\ ApiIdle /\ BufferIdle /\ ParserIdle /\ NotifyIdle /\ PauseIdle /\ TickIdle
    /\ MountIdle /\ SystemIdle
    /\ apiLogger = [queue |-> <<>>, next |-> 1, running |-> TRUE,
                    pc |-> [f \in Flushers |-> IF f = "writer" THEN "head" ELSE "none"],
                    batch |-> [f \in Flushers |-> <<>>],
                    cur |-> [f \in Flushers |-> 0],
                    calls |-> <<>>, logged_at_stop |-> 0]

\* log(): self.log_queue.put(entry); entries are numbered as they are logged
Log ==
    /\ apiLogger.next <= MaxLogs
    /\ apiLogger' = [apiLogger EXCEPT !.queue = Append(@, apiLogger.next),
                                      !.next = @ + 1]
    /\ UNCHANGED notLogger

\* mutant: _flush_logs returns without looking at the queue
FlushEntry_Return(q) == "return"

\* _flush_logs, first statement: "if self.log_queue.empty(): return"
FlushEntry(q) == IF q = <<>> THEN "return" ELSE "drain"

\* _batch_writer: "while self.running:"
WriterLoopHead ==
    /\ apiLogger.pc["writer"] = "head"
    /\ apiLogger' = [apiLogger EXCEPT
                       !.pc["writer"] = IF apiLogger.running THEN "sleep" ELSE "exited"]
    /\ UNCHANGED notLogger

\* _batch_writer: time.sleep(batch_interval) is over, _flush_logs() is entered
WriterWakes ==
    /\ apiLogger.pc["writer"] = "sleep"
    /\ apiLogger' = [apiLogger EXCEPT !.pc["writer"] = FlushEntry(apiLogger.queue)]
    /\ UNCHANGED notLogger

\* stop(): running = False, then _flush_logs() in the caller's thread;
\* logged_at_stop remembers how many entries had been logged by then
LoggerStop ==
    /\ apiLogger.pc["stop"] = "none"
    /\ apiLogger' = [apiLogger EXCEPT !.running = FALSE,
                                      !.pc["stop"] = FlushEntry(apiLogger.queue),
                                      !.logged_at_stop = apiLogger.next - 1]
    /\ UNCHANGED notLogger

\* "while not self.log_queue.empty():"
DrainTest(f) ==
    /\ apiLogger.pc[f] = "drain"
    /\ apiLogger' = [apiLogger EXCEPT
                       !.pc[f] = IF apiLogger.queue = <<>> THEN "send" ELSE "get"]
    /\ UNCHANGED notLogger

\* Queue.get_nowait(): what is left in the queue after the head is taken
GetNowait(q) == Tail(q)

\* self.log_queue.get_nowait() and log_batch.append(log_entry); the queue
\* may have been emptied by the other flush since the test: Empty -> break
DrainGet(f) ==
    /\ apiLogger.pc[f] = "get"
    /\ IF apiLogger.queue = <<>>
       THEN apiLogger' = [apiLogger EXCEPT !.pc[f] = "send"]
       ELSE apiLogger' = [apiLogger EXCEPT
                            !.batch[f] = Append(@, Head(apiLogger.queue)),
                            !.queue = GetNowait(@),
                            !.pc[f] = "drain"]
    /\ UNCHANGED notLogger

\* "if log_batch: success = self.api_client.send_logs(log_batch)"
SendLogsCalled(f) ==
    /\ apiLogger.pc[f] = "send"
    /\ IF apiLogger.batch[f] = <<>>
       THEN apiLogger' = [apiLogger EXCEPT !.pc[f] = "return"]
       ELSE apiLogger' = [apiLogger EXCEPT
                            !.calls = Append(@, [batch |-> apiLogger.batch[f], by |-> f,
                                                 ok |-> "pending"]),
                            !.cur[f] = Len(apiLogger.calls) + 1,
                            !.pc[f] = "sending"]
    /\ UNCHANGED notLogger

\* mutant: a batch that could not be posted is put back on the queue
AfterSend_Requeue(q, batch, ok) == IF ok THEN q ELSE q \o batch

\* the queue after send_logs has returned or raised: "if not success: pass",
\* the except-branch only prints
AfterSend(q, batch, ok) == q

\* send_logs returns True or False, or raises; log_batch goes out of scope
SendLogsReturns(f) ==
    /\ apiLogger.pc[f] = "sending"
    /\ \E ok \in BOOLEAN :
         apiLogger' = [apiLogger EXCEPT
                         !.calls[apiLogger.cur[f]].ok = IF ok THEN "yes" ELSE "no",
                         !.queue = AfterSend(@, apiLogger.batch[f], ok),
                         !.batch[f] = <<>>,
                         !.cur[f] = 0,
                         !.pc[f] = "return"]
    /\ UNCHANGED notLogger

\* _flush_logs returns to _batch_writer: back to the loop test
WriterFlushed ==
    /\ apiLogger.pc["writer"] = "return"
    /\ apiLogger' = [apiLogger EXCEPT !.pc["writer"] = "head"]
    /\ UNCHANGED notLogger

\* _flush_logs returns to stop(): writer_thread.join(timeout=2.0) returns,
\* because the writer has exited or because two seconds have passed, which
\* takes a writer that is in time.sleep(batch_interval) or inside send_logs
LoggerStopped ==
    /\ apiLogger.pc["stop"] = "return"
    /\ apiLogger.pc["writer"] \in {"exited", "sleep", "sending"}
    /\ apiLogger' = [apiLogger EXCEPT !.pc["stop"] = "joined"]
    /\ UNCHANGED notLogger

LoggerNext ==
    \/ Log
    \/ WriterLoopHead
    \/ WriterWakes
    \/ LoggerStop
    \/ \E f \in Flushers : DrainTest(f)
    \/ \E f \in Flushers : DrainGet(f)
    \/ \E f \in Flushers : SendLogsCalled(f)
    \/ \E f \in Flushers : SendLogsReturns(f)
    \/ WriterFlushed
    \/ LoggerStopped

LoggerSpec == LoggerInit /\ [][LoggerNext]_vars

(***************************************************************************)
(* BufferSpec: the circular buffer (circular_buffer.py) under push_chunk   *)
(* and save_h264. A chunk is [id, size]; ids number the pushes.            *)
(***************************************************************************)
BufferInit ==
    /\ InitPipeline /\ TimedIdle(MOTION_COOLDOWN_SECONDS) /\ CooldownIdle /\ ApiIdle /\ ParserIdle /\ NotifyIdle /\ PauseIdle /\ TickIdle
    /\ MountIdle /\ SystemIdle /\ LoggerIdle
    /\ circular = [chunks |-> <<>>, bytes_held |-> 0, next |-> 1,
                   op |-> "none", before |-> 0, evicted |-> 0, saved |-> FALSE]

RECURSIVE BytesOf(_)
BytesOf(cs) == IF cs = <<>> THEN 0 ELSE Head(cs).size + BytesOf(Tail(cs))

\* both limits of the buffer
WithinLimits(cs) ==
    Len(cs) <= CIRCULAR_BUFFER_MAX_CHUNKS /\ BytesOf(cs) <= CIRCULAR_BUFFER_MAX_BYTES

\* mutant: only the number of chunks is limited (a deque with maxlen)
RECURSIVE EvictFront_CountOnly(_)
EvictFront_CountOnly(cs) ==
    IF Len(cs) <= CIRCULAR_BUFFER_MAX_CHUNKS THEN cs ELSE EvictFront_CountOnly(Tail(cs))

\* "evict from the front until both limits hold"
RECURSIVE EvictFront(_)
EvictFront(cs) ==
    IF WithinLimits(cs) THEN cs ELSE EvictFront(Tail(cs))

\* push_chunk(bytes): append, then evict from the front until both limits hold
PushChunk ==
    /\ circular.next <= MaxPushes
    /\ \E size \in 1..MaxChunkBytes :
         LET kept == EvictFront(Append(circular.chunks,
                                       [id |-> circular.next, size |-> size])) IN
         circular' = [circular EXCEPT
                        !.chunks = kept,
                        !.bytes_held = BytesOf(kept),
                        !.next = @ + 1,
                        !.op = "push",
                        !.before = Len(circular.chunks),
                        !.evicted = Len(circular.chunks) + 1 - Len(kept)]
    /\ UNCHANGED notBuffer

\* save_h264(destination_path): writes the chunks held, in order, then
\* clears them
SaveH264 ==
    /\ circular.op # "save"
    /\ circular' = [circular EXCEPT
                      !.chunks = <<>>,
                      !.bytes_held = 0,
                      !.op = "save",
                      !.before = Len(circular.chunks),
                      !.evicted = 0,
                      !.saved = @ \/ circular.chunks # <<>>]
    /\ UNCHANGED notBuffer

BufferNext ==
    \/ PushChunk
    \/ SaveH264

BufferSpec == BufferInit /\ [][BufferNext]_vars

(***************************************************************************)
(* ParseSpec: file names as text. A name is the sequence of its            *)
(* characters; the processor formats it, or somebody drops a file of any   *)
(* name into pending, and _parse_filename takes it apart.                  *)
(***************************************************************************)
DecimalDigits == <<"0", "1", "2", "3", "4", "5", "6", "7", "8", "9">>

\* str(n) of a non-negative integer
RECURSIVE StrOf(_)
StrOf(n) ==
    IF n < 10 THEN <<DecimalDigits[n + 1]>>
    ELSE StrOf(n \div 10) \o <<DecimalDigits[(n % 10) + 1]>>

\* the text of the type indicators and of the extensions
TagText ==
    [a |-> <<"a">>, b |-> <<"b">>, thumb |-> <<"t", "h", "u", "m", "b">>,
     video |-> <<"v", "i", "d", "e", "o">>]

Jpg == <<"j", "p", "g">>

H264 == <<"h", "2", "6", "4">>

\* timestamp.strftime("%Y%m%d_%H%M%S") of two detection times
TimestampStrs ==
    {<<"2", "0", "2", "5", "1", "0", "3", "0", "_", "1", "4", "3", "0", "2", "2">>,
     <<"2", "0", "2", "5", "1", "1", "0", "1", "_", "1", "2", "0", "0", "0", "0">>}

\* f"{event_id}_{timestamp_str}_{tag}.{ext}"
FormatFilename(event_id, timestamp_str, tag, ext) ==
    StrOf(event_id) \o <<"_">> \o timestamp_str \o <<"_">> \o TagText[tag] \o <<".">> \o ext

\* the positions of character c in text t
Positions(t, c) == {i \in 1..Len(t) : t[i] = c}

Earliest(S) == CHOOSE i \in S : \A j \in S : i <= j

Latest(S) == CHOOSE i \in S : \A j \in S : i >= j

\* str.split(sep)
RECURSIVE Split(_, _)
Split(t, sep) ==
    IF Positions(t, sep) = {} THEN <<t>>
    ELSE LET i == Earliest(Positions(t, sep)) IN
         <<SubSeq(t, 1, i - 1)>> \o Split(SubSeq(t, i + 1, Len(t)), sep)

\* str.rsplit(sep, 1)
RSplit1(t, sep) ==
    IF Positions(t, sep) = {} THEN <<t>>
    ELSE LET i == Latest(Positions(t, sep)) IN
         <<SubSeq(t, 1, i - 1), SubSeq(t, i + 1, Len(t))>>

\* str.strip() of blanks, as int() does before it reads the number
RECURSIVE Strip(_)
Strip(t) ==
    IF t = <<>> THEN t
    ELSE IF Head(t) = " " THEN Strip(Tail(t))
    ELSE IF t[Len(t)] = " " THEN Strip(SubSeq(t, 1, Len(t) - 1))
    ELSE t

DigitValue(c) == (CHOOSE i \in 1..10 : DecimalDigits[i] = c) - 1

RECURSIVE DecimalValue(_)
DecimalValue(t) ==
    IF t = <<>> THEN 0
    ELSE 10 * DecimalValue(SubSeq(t, 1, Len(t) - 1)) + DigitValue(t[Len(t)])

\* int(text): blanks stripped, an optional sign, one or more decimal
\* digits; anything else is a ValueError (ok = FALSE)
IntOf(t) ==
    LET u == Strip(t)
        signed == u # <<>> /\ Head(u) \in {"+", "-"}
        digits == IF signed THEN Tail(u) ELSE u IN
    IF digits = <<>> \/ \E i \in 1..Len(digits) : digits[i] \notin Range(DecimalDigits)
    THEN [ok |-> FALSE, val |-> 0]
    ELSE [ok |-> TRUE,
          val |-> IF signed /\ Head(u) = "-" THEN 0 - DecimalValue(digits)
                  ELSE DecimalValue(digits)]

\* mutant: the timestamp is taken from the date field alone
parse_filename_DateOnly(filename) ==
    LET halves == RSplit1(filename, ".") IN
    IF Len(halves) < 2 THEN [ok |-> FALSE]
    ELSE LET parts == Split(halves[1], "_") IN
         IF Len(parts) < 4 THEN [ok |-> FALSE]
         ELSE IF ~IntOf(parts[1]).ok THEN [ok |-> FALSE]
         ELSE IF \A t \in DOMAIN type_map : TagText[t] # parts[4] THEN [ok |-> FALSE]
         ELSE LET t == CHOOSE t \in DOMAIN type_map : TagText[t] = parts[4] IN
              [ok |-> TRUE, event_id |-> IntOf(parts[1]).val,
               timestamp |-> parts[2],
               file_type |-> type_map[t][1], dest_subdir |-> type_map[t][2],
               extension |-> halves[2], original_filename |-> filename]

\* mutant: a type indicator that is not in type_map is taken for picture A
parse_filename_AnyTag(filename) ==
    LET halves == RSplit1(filename, ".") IN
    IF Len(halves) < 2 THEN [ok |-> FALSE]
    ELSE LET parts == Split(halves[1], "_") IN
         IF Len(parts) < 4 THEN [ok |-> FALSE]
         ELSE IF ~IntOf(parts[1]).ok THEN [ok |-> FALSE]
         ELSE LET t == IF \A u \in DOMAIN type_map : TagText[u] # parts[4] THEN "a"
                       ELSE CHOOSE u \in DOMAIN type_map : TagText[u] = parts[4] IN
              [ok |-> TRUE, event_id |-> IntOf(parts[1]).val,
               timestamp |-> parts[2] \o <<"_">> \o parts[3],
               file_type |-> type_map[t][1], dest_subdir |-> type_map[t][2],
               extension |-> halves[2], original_filename |-> filename]

\* TransferManager._parse_filename on the text of a name: rsplit('.', 1)
\* (IndexError without a '.'), split('_'), fewer than four parts, int()
\* (ValueError), type_map; every exception returns None ([ok |-> FALSE])
parse_filename(filename) ==
    LET halves == RSplit1(filename, ".") IN
    IF Len(halves) < 2 THEN [ok |-> FALSE]
    ELSE LET parts == Split(halves[1], "_") IN
         IF Len(parts) < 4 THEN [ok |-> FALSE]
         ELSE IF ~IntOf(parts[1]).ok THEN [ok |-> FALSE]
         ELSE IF \A t \in DOMAIN type_map : TagText[t] # parts[4] THEN [ok |-> FALSE]
         ELSE LET t == CHOOSE t \in DOMAIN type_map : TagText[t] = parts[4] IN
              [ok |-> TRUE, event_id |-> IntOf(parts[1]).val,
               timestamp |-> parts[2] \o <<"_">> \o parts[3],
               file_type |-> type_map[t][1], dest_subdir |-> type_map[t][2],
               extension |-> halves[2], original_filename |-> filename]

\* nfs_relative_path = f"{self.camera_id}/{dest_subdir}/{original_filename}",
\* as its three segments
NfsRelativePath(camera_id, file_info) ==
    <<camera_id, file_info.dest_subdir, file_info.original_filename>>

\* ids the server hands out: the small ones and those of the test cases
EventIds == (1..MaxEventId) \cup {42, 100}

\* the fields of names dropped into pending: first fields that are and are
\* not integers, a date and a time, type indicators in and outside type_map
FirstFields ==
    {<<"4", "2">>, <<"x">>, <<>>, <<" ", "7">>, <<"-", "5">>, <<"4", "x">>}

FourthFields ==
    {TagText[t] : t \in DOMAIN TagText} \cup {<<"c">>, <<"A">>, <<>>, <<"t", "h", "u", "m">>}

DroppedFields ==
    {SubSeq(<<f1, <<"2", "0", "2", "5", "1", "0", "3", "0">>,
              <<"1", "4", "3", "0", "2", "2">>, f4, <<"x">>>>, 1, n) :
        f1 \in FirstFields, f4 \in FourthFields, n \in 1..5}

\* "_".join(fields)
RECURSIVE Join(_)
Join(fields) ==
    IF Len(fields) = 1 THEN fields[1]
    ELSE fields[1] \o <<"_">> \o Join(Tail(fields))

\* a legal tuple for the processor to format, or the fields, the presence
\* of a '.' and the extension of a name somebody drops into pending
ParseInit ==
    /\ InitPipeline /\ TimedIdle(MOTION_COOLDOWN_SECONDS) /\ CooldownIdle /\ ApiIdle /\ NotifyIdle /\ PauseIdle /\ TickIdle
    /\ MountIdle /\ SystemIdle /\ LoggerIdle /\ BufferIdle
    /\ \/ \E e \in EventIds, ts \in TimestampStrs, tag \in DOMAIN TagText, x \in {Jpg, H264} :
            parser = [pc |-> "input", kind |-> "tuple", event_id |-> e, ts |-> ts,
                      tag |-> tag, ext |-> x, fields |-> <<>>, dot |-> TRUE, name |-> <<>>,
                      result |-> [ok |-> FALSE], path |-> <<>>]
       \/ \E fs \in DroppedFields, d \in BOOLEAN, x \in {<<>>, Jpg, H264} :
            /\ d \/ x = <<>>
            /\ parser = [pc |-> "input", kind |-> "dropped", event_id |-> 0, ts |-> <<>>,
                         tag |-> "", ext |-> x, fields |-> fs, dot |-> d, name |-> <<>>,
                         result |-> [ok |-> FALSE], path |-> <<>>]

\* _process_event forms the name of an artifact
ProcessorFormats ==
    /\ parser.pc = "input" /\ parser.kind = "tuple"
    /\ parser' = [parser EXCEPT
                    !.name = FormatFilename(parser.event_id, parser.ts, parser.tag, parser.ext),
                    !.pc = "named"]
    /\ UNCHANGED notParser

\* a file of any name appears in pending, with its sentinel
FileDropped ==
    /\ parser.pc = "input" /\ parser.kind = "dropped"
    /\ parser' = [parser EXCEPT
                    !.name = IF parser.dot THEN Join(parser.fields) \o <<".">> \o parser.ext
                             ELSE Join(parser.fields),
                    !.pc = "named"]
    /\ UNCHANGED notParser

\* file_info = self._parse_filename(file_path.name)
ParseName ==
    /\ parser.pc = "named"
    /\ parser' = [parser EXCEPT !.result = parse_filename(parser.name), !.pc = "parsed"]
    /\ UNCHANGED notParser

\* _transfer_file builds the path it reports to the server
BuildPath ==
    /\ parser.pc = "parsed" /\ parser.result.ok
    /\ parser' = [parser EXCEPT !.path = NfsRelativePath("camera_1", parser.result),
                                !.pc = "reported"]
    /\ UNCHANGED notParser

ParseNext ==
    \/ ProcessorFormats
    \/ FileDropped
    \/ ParseName
    \/ BuildPath

ParseSpec == ParseInit /\ [][ParseNext]_vars

(***************************************************************************)
(* PauseSpec: the event processor's loop under the watchdog's pause() and  *)
(* resume(), with the detector setting handles into the slot.              *)
(*   procPause.paused    : EventProcessor._paused                          *)
(*   procPause.slot      : the handoff slot, 0 or the unconsumed event id  *)
(*   procPause.next      : id of the next handle the detector sets         *)
(*   procPause.pc        : "guard" | "sleep" | "wait" | "check" | "event"  *)
(*                         | "written": position of _processing_loop       *)
(*   procPause.event     : event_data in hand (0: none)                    *)
(*   procPause.late      : ids set into the slot while _paused was True    *)
(*   procPause.artifacts : ids _process_event has written a file for       *)
(*   procPause.sentinels : ids _process_event has touched a sentinel for   *)
(***************************************************************************)
PauseInit ==
    /\ InitPipeline /\ TimedIdle(MOTION_COOLDOWN_SECONDS) /\ CooldownIdle /\ ApiIdle /\ MountIdle /\ SystemIdle /\ LoggerIdle /\ BufferIdle /\ ParserIdle /\ NotifyIdle /\ TickIdle
    /\ procPause = [paused |-> FALSE, slot |-> 0, next |-> 1, pc |-> "guard", event |-> 0,
                    late |-> {}, artifacts |-> {}, sentinels |-> {}]

\* EventProcessor.pause
Pause ==
    /\ procPause' = [procPause EXCEPT !.paused = TRUE]
    /\ UNCHANGED notPause

\* EventProcessor.resume
Resume ==
    /\ procPause' = [procPause EXCEPT !.paused = FALSE]
    /\ UNCHANGED notPause

\* the detector's motion_event.set(event_id, timestamp)
SetHandle ==
    /\ procPause.next <= MaxHandles
    /\ procPause' = [procPause EXCEPT
           !.slot = MotionEvent_set(procPause.slot, procPause.next),
           !.next = procPause.next + 1,
           !.late = IF procPause.paused THEN procPause.late \cup {procPause.next}
                    ELSE procPause.late]
    /\ UNCHANGED notPause

\* top of the loop: the pause guard sleeps, otherwise the thread goes on to
\* wait_and_get
PauseGuard ==
    /\ procPause.pc = "guard"
    /\ procPause' = [procPause EXCEPT !.pc = IF procPause.paused THEN "sleep" ELSE "wait"]
    /\ UNCHANGED notPause

\* time.sleep(0.5); continue
PauseSleepOver ==
    /\ procPause.pc = "sleep"
    /\ procPause' = [procPause EXCEPT !.pc = "guard"]
    /\ UNCHANGED notPause

\* event_data = self.motion_event.wait_and_get()
PausableWaitAndGet ==
    /\ procPause.pc = "wait"
    /\ MotionEvent_ready(procPause.slot)
    /\ procPause' = [procPause EXCEPT !.event = procPause.slot, !.slot = 0, !.pc = "check"]
    /\ UNCHANGED notPause

\* what the loop does with the handle wait_and_get returned: the second
\* test of _paused discards it, otherwise _process_event is called
AfterWait(paused) == IF paused THEN "discard" ELSE "process"

\* the test of _paused after wait_and_get returned
CheckPaused ==
    /\ procPause.pc = "check"
    /\ procPause' =
         IF AfterWait(procPause.paused) = "discard"
         THEN [procPause EXCEPT !.event = 0, !.pc = "guard"]
         ELSE [procPause EXCEPT !.pc = "event"]
    /\ UNCHANGED notPause

\* _process_event writes the first artifact of the event
PausableWrite ==
    /\ procPause.pc = "event"
    /\ procPause' = [procPause EXCEPT !.artifacts = procPause.artifacts \cup {procPause.event},
                                      !.pc = "written"]
    /\ UNCHANGED notPause

\* _process_event touches the sentinel and, after the last artifact, returns
PausableTouchSentinel ==
    /\ procPause.pc = "written"
    /\ procPause' = [procPause EXCEPT !.sentinels = procPause.sentinels \cup {procPause.event},
                                      !.event = 0, !.pc = "guard"]
    /\ UNCHANGED notPause

PauseNext ==
    \/ Pause
    \/ Resume
    \/ SetHandle
    \/ PauseGuard
    \/ PauseSleepOver
    \/ PausableWaitAndGet
    \/ CheckPaused
    \/ PausableWrite
    \/ PausableTouchSentinel

PauseSpec == PauseInit /\ [][PauseNext]_vars

(***************************************************************************)
(* TickSpec: _transfer_loop, _process_sentinel and _transfer_file statement *)
(* by statement for picture A and the thumbnail of event 1, with the        *)
(* counter the statistics report.                                           *)
(*   tick.pending, tick.sentinels : files and sentinels in pending          *)
(*   tick.tmp, tick.final         : names having a {dest}/{F}.tmp, {dest}/{F} *)
(*   tick.pc      : "sleep" | "next" | "copy" | "copied" | "unlinkF" | "unlinkS" *)
(*   tick.queue   : sentinels of this tick not yet handled                  *)
(*   tick.file    : file of the sentinel in hand                            *)
(*   tick.elapsed : seconds the last shutil.copy2 took                      *)
(*   tick.files_transferred : TransferManager.files_transferred             *)
(*   tick.renames : renames that have put a file under its final name       *)
(*   tick.updates : _notify_api calls                                       *)
(*   tick.raises  : calls that have raised                                  *)
(***************************************************************************)
TickNames == {FormatName(1, Tags[1]), FormatName(1, Tags[2])}

\* the seconds a copy may take: none, exactly the timeout, one more
CopySeconds == {0, TRANSFER_TIMEOUT, TRANSFER_TIMEOUT + 1}

TickInit ==
    /\ InitPipeline /\ TimedIdle(MOTION_COOLDOWN_SECONDS) /\ CooldownIdle /\ ApiIdle /\ MountIdle /\ SystemIdle /\ LoggerIdle /\ BufferIdle /\ ParserIdle /\ NotifyIdle /\ PauseIdle
    /\ tick = [pending |-> TickNames, sentinels |-> TickNames, tmp |-> {}, final |-> {},
               pc |-> "sleep", queue |-> <<>>, file |-> NoFile, elapsed |-> 0,
               files_transferred |-> 0, renames |-> 0, updates |-> 0, raises |-> 0]

CanRaise == tick.raises < MaxRaises

\* _process_sentinel returned True: "if success: self.files_transferred += 1"
Succeeded(t) == [t EXCEPT !.files_transferred = @ + 1, !.pc = "next", !.file = NoFile]

\* _process_sentinel returned False, or raised into the loop's except
Failed(t) == [t EXCEPT !.pc = "next", !.file = NoFile]

\* sorted(self.pending_dir.glob("*.READY"), ...)
TickScan ==
    /\ tick.pc = "sleep"
    /\ tick.sentinels # {}
    /\ tick' = [tick EXCEPT !.queue = SeqOfSet(tick.sentinels), !.pc = "next"]
    /\ UNCHANGED notTick

\* the for loop is exhausted: statistics, time.sleep(check_interval)
TickEnds ==
    /\ tick.pc = "next" /\ tick.queue = <<>>
    /\ tick' = [tick EXCEPT !.pc = "sleep"]
    /\ UNCHANGED notTick

\* _process_sentinel with a missing companion: unlink the sentinel, return
\* True; the unlink may raise
TickOrphan ==
    /\ tick.pc = "next" /\ tick.queue # <<>>
    /\ LET f == Head(tick.queue)
           t == [tick EXCEPT !.queue = Tail(@)] IN
       /\ f \notin tick.pending
       /\ \/ tick' = Succeeded([t EXCEPT !.sentinels = @ \ {f}])
          \/ CanRaise /\ tick' = Failed([t EXCEPT !.raises = @ + 1])
    /\ UNCHANGED notTick

\* _process_sentinel with its companion: _transfer_file returns False at
\* the storage check, or shutil.copy2 opens the .tmp
TickBegin ==
    /\ tick.pc = "next" /\ tick.queue # <<>>
    /\ LET f == Head(tick.queue)
           t == [tick EXCEPT !.queue = Tail(@)] IN
       /\ f \in tick.pending
       /\ \E mounted \in BOOLEAN :
            tick' = IF mounted
                    THEN [t EXCEPT !.file = f, !.tmp = @ \cup {f}, !.pc = "copy"]
                    ELSE Failed(t)
    /\ UNCHANGED notTick

\* mutant: the limit is twice the configured one
TimedOut_Twice(elapsed) == elapsed > 2 * TRANSFER_TIMEOUT

\* "if elapsed > self.transfer_timeout"
TimedOut(elapsed) == elapsed > TRANSFER_TIMEOUT

\* shutil.copy2 returns after `elapsed` seconds: over the limit the .tmp is
\* unlinked and _transfer_file returns False
TickCopyReturns ==
    /\ tick.pc = "copy"
    /\ \E elapsed \in CopySeconds :
         tick' = IF TimedOut(elapsed)
                 THEN Failed([tick EXCEPT !.elapsed = elapsed, !.tmp = @ \ {tick.file}])
                 ELSE [tick EXCEPT !.elapsed = elapsed, !.pc = "copied"]
    /\ UNCHANGED notTick

\* temp_path.rename(dest_path), the statistics, _notify_api, return True
TickRename ==
    /\ tick.pc = "copied"
    /\ tick' = [tick EXCEPT !.tmp = @ \ {tick.file}, !.final = @ \cup {tick.file},
                            !.renames = @ + 1, !.updates = @ + 1, !.pc = "unlinkF"]
    /\ UNCHANGED notTick

\* shutil.copy2 or the rename raises: the except-branch unlinks the .tmp if
\* it can and returns False
TickTransferRaises ==
    /\ tick.pc \in {"copy", "copied"}
    /\ CanRaise
    /\ \E cleaned \in BOOLEAN :
         tick' = Failed([tick EXCEPT !.raises = @ + 1,
                                     !.tmp = IF cleaned THEN @ \ {tick.file} ELSE @])
    /\ UNCHANGED notTick

\* file_path.unlink()
TickUnlinkFile ==
    /\ tick.pc = "unlinkF"
    /\ tick' = [tick EXCEPT !.pending = @ \ {tick.file}, !.pc = "unlinkS"]
    /\ UNCHANGED notTick

\* sentinel_path.unlink(); return True
TickUnlinkSentinel ==
    /\ tick.pc = "unlinkS"
    /\ tick' = Succeeded([tick EXCEPT !.sentinels = @ \ {tick.file}])
    /\ UNCHANGED notTick

\* either unlink raises: the exception reaches the loop's except
TickUnlinkRaises ==
    /\ tick.pc \in {"unlinkF", "unlinkS"}
    /\ CanRaise
    /\ tick' = Failed([tick EXCEPT !.raises = @ + 1])
    /\ UNCHANGED notTick

TickNext ==
    \/ TickScan
    \/ TickEnds
    \/ TickOrphan
    \/ TickBegin
    \/ TickCopyReturns
    \/ TickRename
    \/ TickTransferRaises
    \/ TickUnlinkFile
    \/ TickUnlinkSentinel
    \/ TickUnlinkRaises

TickSpec == TickInit /\ [][TickNext]_vars

(***************************************************************************)
(* Properties of the staging pipeline (Spec).                              *)
(***************************************************************************)
HasSentinel(n) == n \in Range(sentinels)

\* the event id each name of pending parses to
ParsedEventId == [n \in Names |-> ParseFilename(n).event_id]

EventIdOf(n) == ParsedEventId[n]

\* every artifact in pending with its sentinel is completely written
SentinelImpliesComplete ==
    \A n \in ArtifactNames :
        (HasSentinel(n) /\ pending[n] # "absent") => pending[n] = "complete"

\* C1: whenever an artifact written by the processor is in pending together
\* with its .READY sentinel, the artifact is completely written (the sentinel
\* is touched only after the write returned): so it is initially and after
\* every step that changes a file or a sentinel of pending.
C1_SentinelImpliesComplete ==
    /\ SentinelImpliesComplete
    /\ [][<<pending, sentinels>>' # <<pending, sentinels>> => SentinelImpliesComplete']_vars

\* an artifact with its sentinel is staged while the next one is half written
C1_Witness ==
    \E n \in ArtifactNames :
        /\ HasSentinel(n) /\ pending[n] = "complete"
        /\ ppc = "writing" /\ pending[CurrentArtifact] = "partial"
        /\ ~HasSentinel(CurrentArtifact)

\* C2: the final name on network storage never holds partially copied
\* content: it is absent or complete, the partial bytes live under .tmp only.
C2_NoPartialFinal ==
    \A n \in Names : nfs.final[n] \in {"absent", "complete"}

\* a copy is half done under .tmp, the final name is not there yet, and
\* another file is already published
C2_Witness ==
    \E n, m \in Names :
        /\ nfs.tmp[n] = "partial" /\ nfs.final[n] = "absent" /\ tpc = "copy" /\ tfile = n
        /\ nfs.final[m] = "complete"

\* C3: a complete file leaves pending only by the transfer manager's unlink
\* after copy and rename of that file succeeded in the same attempt and its
\* content is under the final name; failed, timed-out or deferred attempts
\* remove nothing.
C3_UnlinkOnlyAfterPublish ==
    [][\A n \in Names :
         (pending[n] = "complete" /\ pending'[n] = "absent") =>
            /\ tfile = n
            /\ nfs.final[n] = "complete"
            /\ attempt = <<"check", "copy", "rename", "notify">>]_vars

\* a file was unlinked after an earlier attempt of the run had failed
C3_Witness ==
    \E n \in ArtifactNames :
        /\ pending[n] = "absent" /\ nfs.final[n] = "complete"
        /\ tpc = "unlinkS" /\ tfile = n /\ faults > 0

\* C4: the transfer manager removes a sentinel only when the companion's
\* content is under the final name on network storage and the companion is
\* gone from pending.
C4_SentinelRemovedLast ==
    [][\A n \in Names :
         (HasSentinel(n) /\ n \notin Range(sentinels')) =>
            (nfs.final[n] = "complete" /\ pending[n] = "absent")]_vars

\* an orphaned sentinel (its unlink had failed) has been removed by a later tick
C4_Witness ==
    \E n \in ArtifactNames :
        /\ ~HasSentinel(n) /\ pending[n] = "absent" /\ nfs.final[n] = "complete"
        /\ tpc = "loop" /\ faults > 0

\* C5: a file of pending without a .READY sentinel is never copied, deleted
\* or reported by the transfer manager: only the processor's own write
\* changes it, network storage holds nothing new for it and no update_file
\* call is made for it.
C5_NoSentinelUntouched ==
    [][/\ \A n \in Names : ~HasSentinel(n) =>
            /\ nfs'.tmp[n] = nfs.tmp[n]
            /\ nfs'.final[n] = nfs.final[n]
            /\ pending'[n] # pending[n] =>
                  (ppc \in {"start", "writing"} /\ n = CurrentArtifact)
       /\ Len(updates') > Len(updates) =>
            \E m \in Names : HasSentinel(m) /\ updates' = Append(updates, UpdateCall(m))
      ]_vars

\* after a restart a partial artifact without sentinel lies in pending while
\* the transfer manager has already transferred another file
C5_Witness ==
    \E n \in ArtifactNames :
        /\ pending[n] = "partial" /\ ~HasSentinel(n)
        /\ crashes > 0 /\ ppc = "wait"
        /\ Len(updates) > 0

\* C6: update_file is called for a file only after check, copy and rename of
\* that file succeeded in the same _transfer_file call.
C6_UpdateAfterRename ==
    [][Len(updates') > Len(updates) =>
         /\ attempt = <<"check", "copy", "rename">>
         /\ nfs.final[tfile] = "complete"
         /\ nfs.tmp[tfile] = "absent"
         /\ updates' = Append(updates, UpdateCall(tfile))]_vars

\* update_file was called in an attempt that followed a failed one
C6_Witness ==
    /\ tpc = "unlinkF" /\ Len(updates) > 0 /\ faults > 0
    /\ nfs.final[tfile] = "complete"

\* C7: within one agent run no two update_file calls carry the same
\* (event_id, file_type) pair.
C7_NoDuplicateUpdate ==
    \A i, j \in 1..Len(updates) : i # j => updates[i] # updates[j]

Staged(n) == pending[n] = "complete" /\ HasSentinel(n)

Transferred(n) == nfs.final[n] = "complete" /\ pending[n] = "absent" /\ ~HasSentinel(n)

HappensBefore ==
    /\ Range(published) \subseteq created
    /\ Range(consumed) \subseteq Range(published)
    /\ pevent # 0 => pevent \in Range(consumed)
    /\ slot # 0 => slot \in Range(published)
    /\ \A n \in ArtifactNames :
         (pending[n] # "absent" \/ HasSentinel(n)) => EventIdOf(n) \in Range(consumed)

\* C9: an artifact (or sentinel) of event e exists only if wait_and_get
\* returned e, which happens only if motion_event.set was called with e,
\* which happens only if create_event returned e: so it is initially and
\* after every step that changes one of the variables this speaks of.
C9_HappensBefore ==
    /\ HappensBefore
    /\ [][<<created, published, consumed, pevent, slot, pending, sentinels>>'
            # <<created, published, consumed, pevent, slot, pending, sentinels>>
          => HappensBefore']_vars

\* the first artifact of an event is in pending
C9_Witness ==
    \E e \in created :
        /\ pending[FormatName(e, "a")] = "complete"
        /\ e \in Range(consumed) /\ e \in Range(published)

\* the sentinel of n has been created: it is there, or the transfer manager
\* removed it, which it does only for a file it has published
SentinelCreated(n) == HasSentinel(n) \/ nfs.final[n] = "complete"

\* the processor has returned from _process_event(e) and the agent has run
\* without interruption
ProcessedEvent(e) == e \in Range(consumed) /\ pevent # e /\ crashes = 0

\* C17: when the write of one artifact of an event fails, the later artifacts
\* of the event are still written and get their sentinels: of a processed
\* event no more artifacts are missing than writes have failed.
C17_ContinueAfterFailure ==
    \A e \in 1..MaxEvents :
        ProcessedEvent(e) =>
            Cardinality({k \in 1..4 : ~SentinelCreated(FormatName(e, Tags[k]))}) <= faults

\* the k-th artifact of event e, in the order _process_event writes them
ArtifactOf == [e \in 1..MaxEvents |-> [k \in 1..4 |-> FormatName(e, Tags[k])]]

\* C18: the sentinels of an event are created in the order picture A,
\* thumbnail, picture B, video: a step that creates the sentinel of an
\* artifact is taken only when the sentinel of the artifact before it (and
\* so, step by step, of every earlier one) has been created.
C18_SentinelOrder ==
    [][sentinels' # sentinels =>
         \A e \in 1..MaxEvents : \A k \in 2..4 :
            (~HasSentinel(ArtifactOf[e][k]) /\ HasSentinel(ArtifactOf[e][k])') =>
                SentinelCreated(ArtifactOf[e][k - 1])]_vars

\* the video's sentinel is in pending while picture A has already been
\* transferred and its sentinel removed
C18_Witness ==
    \E e \in 1..MaxEvents :
        /\ HasSentinel(FormatName(e, "video"))
        /\ ~HasSentinel(FormatName(e, "a")) /\ nfs.final[FormatName(e, "a")] = "complete"
        /\ HasSentinel(FormatName(e, "b"))

\* C19 as stated: for every artifact the processor writes, the sentinel
\* exists if and only if the artifact is fully written in pending.
C19_SentinelIffComplete ==
    \A n \in ArtifactNames : HasSentinel(n) <=> pending[n] = "complete"

\* C19 as amended: a sentinel exists only if its artifact is fully written in
\* pending, or has been published on network storage and unlinked from
\* pending; it never accompanies an in-progress or partial artifact, nor one
\* that was never written.
C19_SentinelOnlyIfWritten ==
    \A n \in ArtifactNames :
        HasSentinel(n) =>
            \/ pending[n] = "complete"
            \/ pending[n] = "absent" /\ nfs.final[n] = "complete"

\* picture A is published and unlinked, its sentinel still there, while the
\* thumbnail is fully written and its sentinel not yet touched
C19_Witness ==
    \E e \in 1..MaxEvents :
        /\ HasSentinel(FormatName(e, "a")) /\ pending[FormatName(e, "a")] = "absent"
        /\ nfs.final[FormatName(e, "a")] = "complete"
        /\ ppc = "written" /\ pevent = e /\ pk = 2
        /\ pending[FormatName(e, "thumb")] = "complete"
        /\ ~HasSentinel(FormatName(e, "thumb"))

(***************************************************************************)
(* Properties of the transfer manager on malformed names (DrainSpec).      *)
(***************************************************************************)
\* C20: a pair whose file name does not parse (fewer than 4 fields,
\* non-integer event id, unknown type indicator) stays in pending, file and
\* sentinel, through every tick; nothing of it is copied to network storage
\* and no update_file call is made for it.
C20_MalformedLeftAlone ==
    [][/\ \A n \in MalformedNames :
            Staged(n) =>
                /\ pending'[n] = "complete" /\ n \in Range(sentinels')
                /\ nfs'.tmp[n] = "absent" /\ nfs'.final[n] = "absent"
                /\ tfile' # n
       /\ Len(updates') > Len(updates) => tfile \notin MalformedNames
      ]_vars

\* the three malformed pairs are still in pending after the tick that
\* transferred the picture staged behind them
C20_Witness ==
    /\ \A n \in MalformedNames : Staged(n)
    /\ sentinels = SeqOfSet(MalformedNames)
    /\ Transferred(FormatName(1, "a"))
    /\ tpc = "sleep" /\ Len(updates) = 1

(***************************************************************************)
(* Properties of the handoff under timing (TimedSpec).                     *)
(***************************************************************************)
\* C10: every published handle is returned by exactly one wait_and_get:
\* none is returned twice and none is overwritten in the slot before it
\* was consumed, for every accepted cooldown and every processing duration.
C10_ExactlyOnce ==
    /\ hlost = {}
    /\ \A i, j \in 1..Len(hconsumed) : i # j => hconsumed[i] # hconsumed[j]
    /\ Range(hconsumed) \subseteq Range(hpublished)
(***************************************************************************)
(* Properties of the detection loop (CooldownSpec).                        *)
(***************************************************************************)
\* C11: once a trigger has set last_detection_time = t, no create_event call
\* starts and no handle is published at any time in [t, t + cooldown_seconds);
\* counted from the start of the first create_event call, exactly one call
\* starts within one cooldown period.
C11_CooldownSuppresses ==
    [][/\ (detection.pc # "creating" /\ detection'.pc = "creating") =>
            \/ detection.last_detection_time = 0
            \/ detection.now >= detection.last_detection_time + cooldown_seconds
       /\ (detection.pc # "published" /\ detection'.pc = "published") =>
            \/ detection.last_detection_time = 0
            \/ detection.now >= detection.last_detection_time + cooldown_seconds
       /\ detection'.windowStart # 0 => detection'.windowCalls = 1]_vars

\* under continuous motion the second create_event call starts at the very
\* second the cooldown of the first trigger ends
C11_Witness ==
    /\ detection.pc = "creating"
    /\ detection.last_detection_time # 0
    /\ detection.now = detection.last_detection_time + cooldown_seconds
    /\ detection.windowCalls = 1
    /\ detection.now >= detection.windowStart + cooldown_seconds

\* C33: last_detection_time is set to the current time when the create_event
\* attempt of a trigger has ended, on the path that published the handle and
\* on the path of an exception alike; it is set at no other point and is
\* left unchanged for as long as create_event is retrying.
C33_CooldownStartsAfterAttempt ==
    [][/\ detection.pc = "creating" =>
            detection'.last_detection_time = detection.last_detection_time
       /\ (detection.pc \in {"published", "failed"} /\ detection'.pc # detection.pc) =>
            detection'.last_detection_time = detection.now
       /\ detection'.last_detection_time # detection.last_detection_time =>
            detection.pc \in {"published", "failed"}]_vars

\* a trigger after the first cooldown period: its attempt has ended and the
\* cooldown has just started from the present second
C33_Witness ==
    /\ detection.pc = "loop"
    /\ detection.last_detection_time = detection.now
    /\ detection.now >= detection.windowStart + cooldown_seconds + 2
    /\ detection.windowStart # 0

(***************************************************************************)
(* Properties of the API client (ApiSpec).                                 *)
(***************************************************************************)
Returns == api.result = "pending" /\ api'.result # "pending"

\* C12: create_event returns only the non-null id of a 200/201 response; a
\* 200/201 response without an id is followed by the next delay of the
\* schedule and another attempt; create_event never returns None and the
\* detector never takes its 'event creation failed' branch.
C12_CreateEventReturnsId ==
    [][/\ (api.op = "create_event" /\ Returns) =>
            /\ StatusOk(api'.resp) /\ api'.resp.id # "None"
            /\ api'.result = api'.resp.id
       /\ (api.op = "create_event" /\ api'.attempt = api.attempt + 1
             /\ StatusOk(api'.resp) /\ api'.resp.id = "None") =>
            /\ api'.result = "pending"
            /\ api'.delays = Append(api.delays, CreateEventDelay(api'.attempt))
       /\ api'.op = "create_event" => api'.result # "None"
       /\ api'.caller # "event_lost"]_vars

\* a 201 response without an id has just been received by the second
\* attempt: the call has not returned and the next delay is scheduled
C12_Witness ==
    /\ api.op = "create_event" /\ api.attempt = 2
    /\ api.resp = [kind |-> "http", status |-> 201, id |-> "None"]
    /\ api.result = "pending" /\ api.delays = <<0, 5>>

\* C13: register_camera returns exactly when an attempt receives a 200/201
\* response and returns nothing but True; after every failed attempt the
\* call is still in progress with another attempt to come, and the caller
\* stays blocked until the return.
C13_RegisterBlocksUntilOk ==
    [][/\ (api.op = "register_camera" /\ api'.attempt = api.attempt + 1) =>
            /\ Returns <=> StatusOk(api'.resp)
            /\ Returns => api'.result = "True"
            /\ ~StatusOk(api'.resp) => /\ api'.result = "pending"
                                       /\ api'.op = "register_camera"
                                       /\ ENABLED RegisterCameraAttempt
       /\ (api.op = "register_camera" /\ Returns) => api'.attempt = api.attempt + 1
       /\ (api'.op = "register_camera" /\ api'.result = "pending") => api'.caller = "blocked"
       /\ api'.caller = "registered" => (api.op = "register_camera" /\ api.result = "True")]_vars

\* registration has returned True at its fifth attempt, after four failed
\* ones, and the caller is still blocked in the call
C13_Witness ==
    /\ api.op = "register_camera" /\ api.result = "True" /\ api.attempt = 5
    /\ api.caller = "blocked" /\ api.resp.status = 200
    /\ api.delays = <<0, 5, 10, 30>>

\* the delay the claim assigns to the k-th wait
Schedule(k) == IF k = 1 THEN 0 ELSE IF k = 2 THEN 5 ELSE IF k = 3 THEN 10 ELSE 30

\* C14: in one call of register_camera or create_event the k-th wait between
\* attempts is 0, 5, 10 and then 30 seconds for every k >= 4; there is one
\* wait per failed attempt and the schedule neither resets nor grows.
C14_RetrySchedule ==
    api.op \in {"register_camera", "create_event"} =>
        /\ \A k \in 1..Len(api.delays) : api.delays[k] = Schedule(k)
        /\ Len(api.delays) = IF api.result = "pending" THEN api.attempt ELSE api.attempt - 1

\* create_event has failed five times
C14_Witness ==
    /\ api.op = "create_event" /\ api.result = "pending"
    /\ api.delays = <<0, 5, 10, 30, 30>>

\* C15: update_file makes at most 3 attempts, returns True at the first
\* 200/201 response, waits 1 s, 2 s and 4 s after its first, second and
\* third failed attempt and then returns False; it returns nothing else.
C15_UpdateFileBounded ==
    api.op = "update_file" =>
        /\ api.attempt <= 3
        /\ api.result \in {"pending", "True", "False"}
        /\ api.result = "True" => StatusOk(api.resp)
        /\ \A k \in 1..Len(api.delays) : api.delays[k] = 2 ^ (k - 1)
        /\ api.result = "False" => (api.attempt = 3 /\ api.delays = <<1, 2, 4>>)

\* C16: send_logs with a non-empty batch makes at most 2 attempts, returns
\* True at the first 200/201 response, waits 1 s and 5 s after its first and
\* second failed attempt and then returns False; it returns nothing else.
C16_SendLogsBounded ==
    (api.op = "send_logs" /\ api.batch > 0) =>
        /\ api.attempt <= 2
        /\ api.result \in {"pending", "True", "False"}
        /\ api.result = "True" => StatusOk(api.resp)
        /\ \A k \in 1..Len(api.delays) : api.delays[k] = <<1, 5>>[k]
        /\ api.result = "False" => (api.attempt = 2 /\ api.delays = <<1, 5>>)
(***************************************************************************)
(* Properties of _transfer_file against the mount (MountSpec).             *)
(***************************************************************************)
\* C21: a transfer attempt made while network storage is unavailable (mount
\* point missing, one of pictures/thumbs/videos missing, or the write probe
\* failing) copies nothing, creates no .tmp and no final file, makes no
\* update_file call and leaves the artifact and its sentinel in pending.
C21_DefersWhileUnavailable ==
    [][(/\ nfsMount.file = NoFile
        /\ \/ ~nfsMount.base
           \/ \E d \in {"pictures", "thumbs", "videos"} : d \notin nfsMount.subdirs
           \/ ~nfsMount.writable) =>
          /\ nfsMount'.tmp = nfsMount.tmp
          /\ nfsMount'.final = nfsMount.final
          /\ nfsMount'.notified = nfsMount.notified
          /\ nfsMount'.staged = nfsMount.staged
          /\ nfsMount'.file = NoFile]_vars

\* one file has been transferred, then a subdirectory went missing on a
\* mounted and writable share, and the next attempt was deferred
C21_Witness ==
    /\ nfsMount.last = "deferred"
    /\ nfsMount.base /\ nfsMount.writable /\ nfsMount.subdirs # Subdirs
    /\ nfsMount.final # {} /\ nfsMount.staged # {} /\ nfsMount.tmp = {}
(***************************************************************************)
(* Properties of the orchestrator (LifecycleSpec, LifecycleLiveSpec).      *)
(***************************************************************************)
IsPrefix(a, b) == Len(a) <= Len(b) /\ \A i \in 1..Len(a) : a[i] = b[i]

\* the steps of startup among those the main thread has completed
StartupDone ==
    SelectSeq(system.done,
              LAMBDA x : x \notin {"stop_detector", "stop_processor", "stop_transfer_manager",
                                   "stop_buffer", "close_api_client", "stop_logger"})

\* C22 as stated: startup follows the order validate config, create
\* directories, create logger, create API client, register_camera, create
\* handoff, buffer, detector, processor, transfer manager, start buffer,
\* detector, processor, transfer manager; no logger exists before the
\* configuration is validated.
C22_StartupOrder ==
    IsPrefix(StartupDone,
             <<"validate_config", "ensure_directories", "create_logger", "create_api_client",
               "register_camera", "create_motion_event", "create_buffer", "create_detector",
               "create_processor", "create_transfer_manager", "start_buffer",
               "start_detector", "start_processor", "start_transfer_manager">>)

\* C22 as amended: the logger is created first, by the first log call of the
\* constructor; from there startup follows the stated order, and no
\* component is created or started and no create_event is issued before
\* register_camera has returned.
C22_StartupOrderLoggerFirst ==
    /\ IsPrefix(StartupDone,
                <<"create_logger", "validate_config", "ensure_directories",
                  "create_api_client", "register_camera", "create_motion_event",
                  "create_buffer", "create_detector", "create_processor",
                  "create_transfer_manager", "start_buffer", "start_detector",
                  "start_processor", "start_transfer_manager">>)
    /\ \A i \in 1..Len(system.done) :
         system.done[i] \in {"create_motion_event", "create_buffer", "create_detector",
                             "create_processor", "create_transfer_manager", "start_buffer",
                             "start_detector", "start_processor", "start_transfer_manager"}
            => \E j \in 1..(i - 1) : system.done[j] = "register_camera"
    /\ \A a \in {"detector", "processor", "transfer"} :
         system.thread[a] # "none" => "register_camera" \in Range(system.done)

\* startup has completed and the detector is inside create_event
C22_Witness ==
    /\ system.pc = "run" /\ system.running
    /\ Len(StartupDone) = 14
    /\ system.thread["detector"] = "create_event"

\* the component stops among the steps the main thread has completed
StopsDone ==
    SelectSeq(system.done,
              LAMBDA x : x \in {"stop_transfer_manager", "stop_processor",
                                "stop_detector", "stop_buffer"})

\* C23: shutdown stops the components in the reverse of the order in which
\* they were started: transfer manager, processor, detector, buffer.
C23_ReverseStopOrder ==
    IsPrefix(StopsDone,
             <<"stop_transfer_manager", "stop_processor", "stop_detector", "stop_buffer">>)

\* a stop() call has passed its guard and set running = False
ShutdownBegun == \E i \in DOMAIN system.frames : system.frames[i].pc = "sequence"

\* C24: once shutdown has begun, every activity's running flag becomes false
\* and every activity's loop exits, whatever the activity was doing.
C24_ActivitiesExit ==
    ShutdownBegun ~>
        (\A a \in {"detector", "processor", "transfer", "logger"} :
            ~system.flag[a] /\ system.thread[a] = "exited")

\* the main thread is inside register_camera's retry loop
InRegisterCamera == system.pc = "initialize" /\ NextInitialize = "register_camera"

\* the detector is inside create_event's retry loop of a started system
InCreateEvent == system.pc = "run" /\ system.thread["detector"] = "create_event"

\* C32: a signal received while register_camera or create_event is retrying
\* ends the retrying, and the process exits, even if the server never answers.
C32_RetryLoopsHonourShutdown ==
    (system.frames # <<>> /\ (InRegisterCamera \/ InCreateEvent)) ~> (system.pc = "exit")

\* C39: when run() returns 1 after a failed start, every component that was
\* already started has been stopped: its running attribute is False.
C39_FailedStartStopsComponents ==
    system.exit = 1 => \A a \in {"detector", "processor", "transfer"} : ~system.flag[a]

\* C40: the shutdown sequence runs at most once: no statement of stop()'s
\* sequence is executed twice, however signals and run()'s own call of
\* stop() interleave.
C40_StopSequenceOnce ==
    \A step \in Range(StopOrder) :
        Cardinality({i \in DOMAIN system.done : system.done[i] = step}) <= 1

(***************************************************************************)
(* Properties of the logger (LoggerSpec).                                  *)
(***************************************************************************)
\* the places of entry e in the batches passed to send_logs
PostedAt(e) ==
    {<<i, k>> \in (1..Len(apiLogger.calls)) \X (1..MaxLogs) :
        k <= Len(apiLogger.calls[i].batch) /\ apiLogger.calls[i].batch[k] = e}

\* C25: every log entry is in at most one batch passed to send_logs, and an
\* entry that was passed to send_logs is never in the queue again, whether
\* the post succeeded or failed and whichever thread flushed.
C25_AtMostOnePostedBatch ==
    \A e \in 1..MaxLogs :
        /\ Cardinality(PostedAt(e)) <= 1
        /\ PostedAt(e) # {} => e \notin Range(apiLogger.queue)

\* a post has failed, and the flush of stop() and the flush of the writer
\* thread are both inside send_logs, each with a batch of its own
C25_Witness ==
    /\ \E i \in 1..Len(apiLogger.calls) : apiLogger.calls[i].ok = "no"
    /\ apiLogger.pc["writer"] = "sending" /\ apiLogger.pc["stop"] = "sending"
    /\ apiLogger.batch["writer"] # <<>> /\ apiLogger.batch["stop"] # <<>>

DroppedBy(old, new) == Len(old) + 1 - Len(new)

\* after a step the buffer is within both limits, and a push has kept a
\* tail of the chunks held before followed by the pushed chunk
LimitsAndFifo ==
    /\ Len(circular'.chunks) <= CIRCULAR_BUFFER_MAX_CHUNKS
    /\ circular'.bytes_held <= CIRCULAR_BUFFER_MAX_BYTES
    /\ circular'.bytes_held = BytesOf(circular'.chunks)
    /\ circular'.next # circular.next =>
         LET k == DroppedBy(circular.chunks, circular'.chunks) IN
         /\ k \in 0..(Len(circular.chunks) + 1)
         /\ \A i \in 1..Len(circular'.chunks) :
              \/ i + k <= Len(circular.chunks) /\ circular'.chunks[i] = circular.chunks[i + k]
              \/ i + k = Len(circular.chunks) + 1 /\ circular'.chunks[i].id = circular.next

\* C26 as stated: the buffer stays within MAX_CHUNKS and MAX_BYTES, a push
\* evicts oldest first, and a push into a buffer holding exactly MAX_CHUNKS
\* chunks evicts exactly one, whatever the size of the chunk.
C26_LimitsAndEvictOne ==
    [][/\ LimitsAndFifo
       /\ (circular'.next # circular.next
           /\ Len(circular.chunks) = CIRCULAR_BUFFER_MAX_CHUNKS) =>
             DroppedBy(circular.chunks, circular'.chunks) = 1]_vars

\* C26 as amended: the buffer stays within both limits, a push evicts oldest
\* first and no more than the limits require, and a push into a buffer
\* holding exactly MAX_CHUNKS chunks evicts at least one, exactly one when
\* the chunks then left and the pushed chunk are within MAX_BYTES.
C26_LimitsAndEvictAtLeastOne ==
    [][/\ LimitsAndFifo
       /\ circular'.next # circular.next =>
            LET k == DroppedBy(circular.chunks, circular'.chunks)
                size == IF circular'.chunks = <<>>
                        THEN 0 ELSE circular'.chunks[Len(circular'.chunks)].size
                left(j) == BytesOf(SubSeq(circular.chunks, j + 1, Len(circular.chunks))) IN
            /\ Len(circular.chunks) = CIRCULAR_BUFFER_MAX_CHUNKS => k >= 1
            /\ (/\ Len(circular.chunks) = CIRCULAR_BUFFER_MAX_CHUNKS
                /\ k <= Len(circular.chunks)
                /\ left(1) + size <= CIRCULAR_BUFFER_MAX_BYTES) => k = 1
            /\ (k >= 1 /\ k <= Len(circular.chunks)) =>
                 \/ Len(circular.chunks) + 1 - (k - 1) > CIRCULAR_BUFFER_MAX_CHUNKS
                 \/ left(k - 1) + size > CIRCULAR_BUFFER_MAX_BYTES]_vars

\* after a save, the buffer has refilled to MAX_CHUNKS and the next push
\* has evicted exactly one chunk
C26_Witness ==
    /\ circular.saved /\ circular.op = "push"
    /\ circular.before = CIRCULAR_BUFFER_MAX_CHUNKS /\ circular.evicted = 1
    /\ Len(circular.chunks) = CIRCULAR_BUFFER_MAX_CHUNKS

(***************************************************************************)
(* Properties of the file name schema (ParseSpec).                         *)
(***************************************************************************)
\* what each type indicator stands for
KindOfTag ==
    [a |-> <<"image_a", "pictures">>, b |-> <<"image_b", "pictures">>,
     thumb |-> <<"thumbnail", "thumbs">>, video |-> <<"video", "videos">>]

\* C27: parsing the name formatted from a legal tuple (event_id, timestamp,
\* tag, ext) gives back the event id, the timestamp, the kind of the tag
\* and the extension.
C27_RoundTrip ==
    (parser.kind = "tuple" /\ parser.pc \in {"parsed", "reported"}) =>
        /\ parser.result.ok
        /\ parser.result.event_id = parser.event_id
        /\ parser.result.timestamp = parser.ts
        /\ parser.result.file_type = KindOfTag[parser.tag][1]
        /\ parser.result.extension = parser.ext

\* a three-digit id, the video tag and the h264 extension have made the
\* round trip
C27_Witness ==
    /\ parser.kind = "tuple" /\ parser.pc = "reported"
    /\ parser.event_id = 100 /\ parser.tag = "video" /\ parser.ext = <<"h", "2", "6", "4">>
    /\ parser.result.event_id = 100

\* the first fields that are integers, with their values
IntegerFields ==
    {<< <<"4", "2">>, 42 >>, << <<" ", "7">>, 7 >>, << <<"-", "5">>, 0 - 5 >>}

\* the tag whose text is the field f, "" if there is none
TagOfField(f) ==
    IF f = <<"a">> THEN "a"
    ELSE IF f = <<"b">> THEN "b"
    ELSE IF f = <<"t", "h", "u", "m", "b">> THEN "thumb"
    ELSE IF f = <<"v", "i", "d", "e", "o">> THEN "video"
    ELSE ""

\* the dropped name is taken apart as claimed: event id, kind and
\* subdirectory by the tag, and the path camera_id/subdir/filename
ParsedAsClaimed ==
    /\ parser.result.ok
    /\ <<parser.fields[1], parser.result.event_id>> \in IntegerFields
    /\ <<parser.result.file_type, parser.result.dest_subdir>>
          = KindOfTag[TagOfField(parser.fields[4])]
    /\ parser.pc = "reported" =>
          parser.path = <<"camera_1", KindOfTag[TagOfField(parser.fields[4])][2], parser.name>>

\* the name has fewer than four fields, a first field that is not an
\* integer, or a tag outside {a, b, thumb, video}
RejectedAsClaimed ==
    \/ Len(parser.fields) < 4
    \/ \A p \in IntegerFields : p[1] # parser.fields[1]
    \/ TagOfField(parser.fields[4]) = ""

\* C28 as stated: _parse_filename returns None for a name with fewer than
\* four fields, a non-integer first field or an unknown tag, and for every
\* other name the integer id and the kind and subdirectory of the tag.
C28_ParseTotal ==
    (parser.kind = "dropped" /\ parser.pc \in {"parsed", "reported"}) =>
        IF RejectedAsClaimed THEN ~parser.result.ok ELSE ParsedAsClaimed

\* C28 as amended: a name without a '.' is rejected too; every other name
\* is parsed as claimed.
C28_ParseTotalWithExtension ==
    (parser.kind = "dropped" /\ parser.pc \in {"parsed", "reported"}) =>
        IF ~parser.dot \/ RejectedAsClaimed THEN ~parser.result.ok ELSE ParsedAsClaimed

\* a dropped name of five fields with the tag thumb has been parsed and its
\* path built
C28_Witness ==
    /\ parser.kind = "dropped" /\ parser.pc = "reported"
    /\ Len(parser.fields) = 5 /\ parser.fields[1] = <<"-", "5">>
    /\ parser.result.file_type = "thumbnail" /\ parser.path[2] = "thumbs"

(***************************************************************************)
(* Properties of the transfer manager on a staged event (ResumeSpec).      *)
(***************************************************************************)
\* the update_file calls made for the file n
UpdateCallsFor(n) == {i \in 1..Len(updates) : updates[i] = UpdateCall(n)}

\* C29: when update_file has failed for a file after its rename, the
\* transfer counts as successful: once the transfer manager is done with
\* the file, the file and its sentinel are gone from pending, and the
\* server is never notified for it a second time.
C29_FailedNotifyIsFinal ==
    \A n \in unnotified :
        /\ Cardinality(UpdateCallsFor(n)) <= 1
        /\ tfile # n => pending[n] = "absent" /\ n \notin Range(sentinels)

\* the place of a file type in the order picture A, thumbnail, picture B, video
OrderOfType(t) ==
    IF t = "image_a" THEN 1 ELSE IF t = "thumbnail" THEN 2 ELSE IF t = "image_b" THEN 3 ELSE 4

\* C30: the update_file calls for the four artifacts of the event come in
\* the order image_a, thumbnail, image_b, video: no call for an artifact is
\* made before the calls for the artifacts that precede it.
C30_UpdateOrder ==
    \A j \in 1..Len(updates) :
        \A k \in 1..(OrderOfType(updates[j][2]) - 1) :
            \E i \in 1..(j - 1) : OrderOfType(updates[i][2]) = k

C36_RerunCompletes ==
    [][(tpc = "unlinkS" /\ sentinels' # sentinels) =>
          /\ nfs'.final[tfile] = "complete" /\ nfs'.tmp[tfile] = "absent"
          /\ pending'[tfile] = "absent" /\ tfile \notin Range(sentinels')
          /\ tpc' = "loop"]_vars

\* a file was published, its local unlink failed, and the next tick has
\* transferred it again over the file already at the destination
C36_Witness ==
    \E n \in ArtifactNames :
        /\ Len(SelectSeq(updates, LAMBDA u : u = UpdateCall(n))) = 2
        /\ pending[n] = "absent" /\ ~HasSentinel(n)
        /\ nfs.final[n] = "complete" /\ nfs.tmp[n] = "absent"
        /\ tpc = "loop"

(***************************************************************************)
(* Properties of the paused processor (PauseSpec).                         *)
(***************************************************************************)
\* C31: a handle set into the slot while the processor is paused is dropped:
\* no artifact and no sentinel is ever produced for it
C31_LateHandleDropped ==
    \A e \in procPause.late : e \notin procPause.artifacts /\ e \notin procPause.sentinels

C38_CounterCountsPublished ==
    tick.pc = "sleep" => tick.files_transferred = tick.renames
====
